---- MODULE Spec2Model ----
(***************************************************************************)
(* Model of the site maintenance scripts: the SEO auditor (audit.py), the  *)
(* site builder (build.py): its link normalisation, its page transform and *)
(* its main, and the index-ping utility (push_indexnow.py).                *)
(*                                                                         *)
(* Strings are sequences of one-character strings, so that prefix tests,   *)
(* splitting, slicing and suffix removal are computed as the Python code   *)
(* computes them.                                                          *)
(***************************************************************************)
EXTENDS Integers, Sequences, FiniteSets, TLC

VARIABLES
    url,                 \* clean_link: the link string given to clean_link
    outs,                \* clean_link: results of the successive applications
    fs,                  \* the files on disk (absolute paths)
    cur,                 \* resolve_local_path: current_file_path
    link_href,           \* resolve_local_path: link_href as passed in
    resolved,            \* resolve_local_path: the returned values, one per call made
    base_url,            \* SiteAuditor.base_url (None until detected)
    site,                \* the content of the HTML files on disk, as the parser reports it
    pc,                  \* SiteAuditor.run: where the run is
    files,               \* SiteAuditor.files
    internal_links_map,  \* SiteAuditor.internal_links_map, entries in insertion order
    external_links,      \* SiteAuditor.external_links, elements in insertion order
    score,               \* SiteAuditor.score
    issues,              \* SiteAuditor.issues
    top_pages,           \* SiteAuditor.top_pages
    file_i,              \* index in files of the page run audits next
    futures,             \* check_external_links: one record per submitted check
    deducted,            \* history: the deductions passed to add_issue, in call order
    disk,                \* build.py: the HTML files on disk, as the parser reads them
    mtimes,              \* os.path.getmtime of each HTML file
    clock,               \* the time a file written next gets as its mtime
    sitemap,             \* the <loc> values of sitemap.xml (<<>>: no sitemap written)
    listing,             \* os.listdir(BLOG_DIR), in the order it yields the names
    bpc,                 \* build.py main: where the run is
    assets,              \* main's assets (NotFound until extracted)
    all_posts,           \* main's all_posts
    file_k,              \* index of the file that main's current loop processes next
    written,             \* history: the paths written in this run, in order
    runs,                \* history: the number of completed builder runs
    ipc,                 \* push_indexnow.py: where the run is
    sitemap_file,        \* sitemap.xml as push_indexnow.py finds it
    site_urls,           \* push_indexnow.py: site_urls
    requests,            \* history: the bodies POSTed to the IndexNow endpoint, in order
    plog,                \* history: the outcome messages printed by push_to_indexnow
    rec_for,             \* generate_recommendations: current_filename
    rec_out              \* generate_recommendations: the returned value, once it returned

linkVars == <<url, outs>>

resolveVars == <<cur, link_href, resolved>>

auditVars == <<site, pc, files, internal_links_map, external_links, score, issues, top_pages, file_i, futures, deducted>>

buildVars == <<disk, mtimes, clock, sitemap, listing, bpc, assets, all_posts, file_k, written, runs>>

pushVars == <<ipc, sitemap_file, site_urls, requests, plog>>

recVars == <<rec_for, rec_out>>

vars == <<url, outs, fs, cur, link_href, resolved, base_url, site, pc, files, internal_links_map, external_links, score, issues, top_pages, file_i, futures, deducted, disk, mtimes, clock, sitemap, listing, bpc, assets, all_posts, file_k, written, runs, ipc, sitemap_file, site_urls, requests, plog, rec_for, rec_out>>

None == <<"None">>       \* Python's None (no string of the model is the 1-tuple "None")

(***************************************************************************)
(* String primitives (Python str methods)                                  *)
(***************************************************************************)
StartsWith(s, p) == Len(s) >= Len(p) /\ SubSeq(s, 1, Len(p)) = p

EndsWith(s, p) == Len(s) >= Len(p) /\ SubSeq(s, Len(s) - Len(p) + 1, Len(s)) = p

StartsWithAny(s, ps) == \E p \in ps : StartsWith(s, p)

Contains(s, c) == \E i \in 1..Len(s) : s[i] = c

\* index of the first occurrence of character c in s (0 when absent)
IndexOf(s, c) == IF Contains(s, c) THEN CHOOSE i \in 1..Len(s) : s[i] = c /\ \A j \in 1..(i - 1) : s[j] # c ELSE 0

\* s.split(c, 1)[0] and the rest after the first c
Before(s, c) == IF Contains(s, c) THEN SubSeq(s, 1, IndexOf(s, c) - 1) ELSE s

After(s, c) == IF Contains(s, c) THEN SubSeq(s, IndexOf(s, c) + 1, Len(s)) ELSE <<>>

DropFirst(s, n) == SubSeq(s, n + 1, Len(s))

DropLast(s, n) == SubSeq(s, 1, Len(s) - n)

UpperChars == <<"A", "B", "C", "D", "E", "F", "G", "H", "I", "J", "K", "L", "M", "N", "O", "P", "Q", "R", "S", "T", "U", "V", "W", "X", "Y", "Z">>

LowerChars == <<"a", "b", "c", "d", "e", "f", "g", "h", "i", "j", "k", "l", "m", "n", "o", "p", "q", "r", "s", "t", "u", "v", "w", "x", "y", "z">>

LowerChar(c) == IF \E i \in 1..Len(UpperChars) : UpperChars[i] = c THEN LowerChars[CHOOSE i \in 1..Len(UpperChars) : UpperChars[i] = c] ELSE c

\* str.lower()
Lower(s) == [i \in 1..Len(s) |-> LowerChar(s[i])]

\* ''.join(ss)
RECURSIVE Flatten(_)
Flatten(ss) == IF ss = <<>> THEN <<>> ELSE Head(ss) \o Flatten(Tail(ss))

(***************************************************************************)
(* build.py: clean_link                                                    *)
(***************************************************************************)
SkipPrefixes == {<<"h", "t", "t", "p", ":">>, <<"h", "t", "t", "p", "s", ":">>, <<"#">>, <<"d", "a", "t", "a", ":">>, <<"m", "a", "i", "l", "t", "o", ":">>, <<"t", "e", "l", ":">>}

preserve_exts == {<<".", "i", "c", "o">>, <<".", "s", "v", "g">>, <<".", "p", "n", "g">>, <<".", "j", "p", "g">>, <<".", "j", "p", "e", "g">>, <<".", "g", "i", "f">>, <<".", "w", "e", "b", "p">>, <<".", "c", "s", "s">>, <<".", "j", "s">>, <<".", "x", "m", "l">>, <<".", "t", "x", "t">>, <<".", "j", "s", "o", "n">>}

DotHtml == <<".", "h", "t", "m", "l">>

DotHtm == <<".", "h", "t", "m">>

NL == "\n"

\* re.sub(r'\.html?$', '', s, flags=re.IGNORECASE) applied to a string that ends
\* where '$' can match: the very end of the string
StripAtEnd(s) ==
    IF EndsWith(Lower(s), DotHtml) THEN DropLast(s, 5)
    ELSE IF EndsWith(Lower(s), DotHtm) THEN DropLast(s, 4)
    ELSE s

\* re.sub(r'\.html?$', '', s, flags=re.IGNORECASE): '$' matches at the end of the
\* string and also just before a newline that ends the string
SubHtmlSuffix(s) ==
    IF StripAtEnd(s) # s THEN StripAtEnd(s)
    ELSE IF Len(s) > 0 /\ s[Len(s)] = NL /\ StripAtEnd(DropLast(s, 1)) # DropLast(s, 1)
         THEN StripAtEnd(DropLast(s, 1)) \o <<NL>>
    ELSE s

\* main_url / suffix after the "Split hash/query" step
MainUrl(u) ==
    IF Contains(u, "#") THEN Before(u, "#")
    ELSE IF Contains(u, "?") THEN Before(u, "?")
    ELSE u

Suffix(u) ==
    IF Contains(u, "#") THEN <<"#">> \o After(u, "#")
    ELSE IF Contains(u, "?") THEN <<"?">> \o After(u, "?")
    ELSE <<>>

HasPreservedExt(main_url) == \E ext \in preserve_exts : EndsWith(Lower(main_url), ext)

\* mutant: 'tel:' is missing from the prefixes that are skipped
clean_link_NoTel(u) ==
    IF u = <<>> THEN u
    ELSE IF StartsWithAny(u, SkipPrefixes \ {<<"t", "e", "l", ":">>}) THEN u
    ELSE IF HasPreservedExt(MainUrl(u)) THEN u
    ELSE SubHtmlSuffix(MainUrl(u)) \o Suffix(u)

\* mutant: a link with a preserved extension is returned without its hash/query
clean_link_ReturnsMain(u) ==
    IF u = <<>> THEN u
    ELSE IF StartsWithAny(u, SkipPrefixes) THEN u
    ELSE IF HasPreservedExt(MainUrl(u)) THEN MainUrl(u)
    ELSE SubHtmlSuffix(MainUrl(u)) \o Suffix(u)

clean_link(u) ==
    IF u = <<>> THEN u
    ELSE IF StartsWithAny(u, SkipPrefixes) THEN u
    ELSE IF HasPreservedExt(MainUrl(u)) THEN u
    ELSE SubHtmlSuffix(MainUrl(u)) \o Suffix(u)

(***************************************************************************)
(* The file system as the auditor sees it: os.path and os.path.isfile      *)
(***************************************************************************)
Slash == <<"/">>

\* os.path.abspath(root_dir)
root_dir == <<"/", "r">>

\* os.path.join(a, b)
Join(a, b) ==
    IF StartsWith(b, Slash) THEN b
    ELSE IF a = <<>> \/ EndsWith(a, Slash) THEN a \o b
    ELSE a \o Slash \o b

\* str.rstrip('/') and str.lstrip('/')
RECURSIVE RStripSlash(_)
RStripSlash(s) == IF EndsWith(s, Slash) THEN RStripSlash(DropLast(s, 1)) ELSE s

RECURSIVE LStripSlash(_)
LStripSlash(s) == IF StartsWith(s, Slash) THEN LStripSlash(DropFirst(s, 1)) ELSE s

\* index of the last '/' of s (0 when absent)
LastSlash(s) == IF Contains(s, "/") THEN CHOOSE i \in 1..Len(s) : s[i] = "/" /\ \A j \in (i + 1)..Len(s) : s[j] # "/" ELSE 0

\* os.path.dirname(p)
Dirname(p) ==
    LET head == SubSeq(p, 1, LastSlash(p))
    IN  IF head # <<>> /\ RStripSlash(head) # <<>> THEN RStripSlash(head) ELSE head

\* os.path.basename(p)
Basename(p) == DropFirst(p, LastSlash(p))

\* p.split('/')
RECURSIVE Segments(_)
Segments(p) == IF Contains(p, "/") THEN <<Before(p, "/")>> \o Segments(After(p, "/")) ELSE <<p>>

\* the files of a directory tree, as sequences of path components
FileComponents(tree) == {SelectSeq(Segments(f), LAMBDA c : c # <<>>) : f \in tree}

\* comps are the files of the tree as components; d is a directory of the tree
IsDirComponents(comps, d) == d = <<>> \/ \E f \in comps : Len(f) > Len(d) /\ SubSeq(f, 1, Len(d)) = d

\* the kernel's path lookup from directory dir over the components segs:
\* the file reached, or Missing; every component but the last must be a directory
Missing == <<<<"ENOENT">>>>

RECURSIVE Walk(_, _, _)
Walk(comps, dir, segs) ==
    IF segs = <<>> THEN Missing
    ELSE IF Head(segs) = <<>> \/ Head(segs) = <<".">> THEN Walk(comps, dir, Tail(segs))
    ELSE IF Head(segs) = <<".", ".">> THEN Walk(comps, IF dir = <<>> THEN dir ELSE DropLast(dir, 1), Tail(segs))
    ELSE IF IsDirComponents(comps, Append(dir, Head(segs))) THEN Walk(comps, Append(dir, Head(segs)), Tail(segs))
    ELSE IF Append(dir, Head(segs)) \in comps /\ Tail(segs) = <<>> THEN Append(dir, Head(segs))
    ELSE Missing

Lookup(tree, dir, segs) == Walk(FileComponents(tree), dir, segs)

\* os.path.isfile(p) for an absolute path p
isfile(tree, p) == Lookup(tree, <<>>, Segments(p)) # Missing

(***************************************************************************)
(* audit.py: SiteAuditor.resolve_local_path                                *)
(***************************************************************************)
HttpPrefix == <<"h", "t", "t", "p", ":", "/", "/">>

HttpsPrefix == <<"h", "t", "t", "p", "s", ":", "/", "/">>

IndexHtml == <<"i", "n", "d", "e", "x", ".", "h", "t", "m", "l">>

\* link_href.split('#')[0].split('?')[0]
StripHashQuery(h) == Before(Before(h, "#"), "?")

\* "Handle absolute URLs that point to our domain"
MapBaseUrl(bu, h) ==
    IF bu # None /\ bu # <<>> /\ StartsWith(h, bu)
    THEN IF StartsWith(DropFirst(h, Len(bu)), Slash) THEN DropFirst(h, Len(bu)) ELSE Slash \o DropFirst(h, Len(bu))
    ELSE h

potential_path(h) == IF StartsWith(h, Slash) THEN LStripSlash(h) ELSE h

base_search_dir(current_file_path, h) == IF StartsWith(h, Slash) THEN root_dir ELSE Dirname(current_file_path)

\* the three paths tried, in the order tried
target_paths(current_file_path, h) ==
    <<Join(base_search_dir(current_file_path, h), potential_path(h)),
      Join(Join(base_search_dir(current_file_path, h), potential_path(h)), IndexHtml),
      Join(base_search_dir(current_file_path, h), potential_path(h) \o DotHtml)>>

\* mutant: path.html is tried before path/index.html
FirstFile_HtmlBeforeIndex(tree, ps) ==
    IF isfile(tree, ps[1]) THEN ps[1]
    ELSE IF isfile(tree, ps[3]) THEN ps[3]
    ELSE IF isfile(tree, ps[2]) THEN ps[2]
    ELSE None

\* the first of the paths ps that is a file, or None
FirstFile(tree, ps) ==
    IF \E k \in 1..Len(ps) : isfile(tree, ps[k])
    THEN ps[CHOOSE k \in 1..Len(ps) : isfile(tree, ps[k]) /\ \A j \in 1..(k - 1) : ~isfile(tree, ps[j])]
    ELSE None

resolve_local_path(tree, bu, current_file_path, href) ==
    LET h1 == StripHashQuery(href)
        h2 == MapBaseUrl(bu, h1)
    IN  IF h1 = <<>> THEN None
        ELSE IF StartsWith(h2, HttpPrefix) \/ StartsWith(h2, HttpsPrefix) THEN None
        ELSE FirstFile(tree, target_paths(current_file_path, h2))

(***************************************************************************)
(* audit.py: SiteAuditor                                                   *)
(***************************************************************************)
ignore_paths == {<<".", "g", "i", "t">>, <<"n", "o", "d", "e", "_", "m", "o", "d", "u", "l", "e", "s">>, <<"_", "_", "p", "y", "c", "a", "c", "h", "e", "_", "_">>, <<"M", "a", "s", "t", "e", "r", "T", "o", "o", "l">>}

ignore_urls_prefixes == {<<"/", "g", "o", "/">>, <<"j", "a", "v", "a", "s", "c", "r", "i", "p", "t", ":">>, <<"m", "a", "i", "l", "t", "o", ":">>, <<"#">>}

ignore_files == {<<"g", "o", "o", "g", "l", "e">>, <<"4", "0", "4", ".", "h", "t", "m", "l">>}

trusted_external_links == {<<"h", "t", "t", "p", "s", ":", "/", "/", "u", "n", "o", "g", "s", ".", "c", "o", "m", "/">>, <<"h", "t", "t", "p", "s", ":", "/", "/", "u", "n", "o", "g", "s", ".", "c", "o", "m">>}

\* the ThreadPoolExecutor's max_workers
max_workers == 10

\* the length of top_pages: sorted_pages[:10]
TopPagesLen == 10

\* outcomes of a request that are not a status code
RequestException == -1

OtherException == -2

\* sub in s
HasSubstring(s, sub) == \E i \in 1..(Len(s) - Len(sub) + 1) : SubSeq(s, i, i + Len(sub) - 1) = sub

\* os.path.relpath(file_path, root_dir), for a file found under root_dir
RelPath(file_path) == DropFirst(file_path, Len(root_dir) + 1)

\* mutant: the score is not floored at 0
add_issue_score_NoFloor(sc, deduction) == sc - deduction

\* add_issue: self.score = max(0, self.score - deduction)
add_issue_score(sc, deduction) == IF sc - deduction > 0 THEN sc - deduction ELSE 0

\* the score after a sequence of add_issue calls
RECURSIVE ScoreAfter(_, _)
ScoreAfter(sc, calls) == IF calls = <<>> THEN sc ELSE ScoreAfter(add_issue_score(sc, Head(calls).deduction), Tail(calls))

\* one add_issue(type, message, deduction) call; the message is kept as its parts
Call(type, kind, path, detail, deduction) == [type |-> type, kind |-> kind, path |-> path, detail |-> detail, deduction |-> deduction]

IssueOf(call) == [type |-> call.type, kind |-> call.kind, path |-> call.path, detail |-> call.detail]

\* the effect of a sequence of add_issue calls on issues, score and the history
IssuesAfter(iss, calls) == iss \o [i \in 1..Len(calls) |-> IssueOf(calls[i])]

DeductedAfter(ded, calls) == ded \o [i \in 1..Len(calls) |-> calls[i].deduction]

AddIssues(calls) ==
    /\ issues' = IssuesAfter(issues, calls)
    /\ score' = ScoreAfter(score, calls)
    /\ deducted' = DeductedAfter(deducted, calls)

When(cond, call) == IF cond THEN <<call>> ELSE <<>>

\* defaultdict(int): d[key] += 1
MapHas(map, key) == \E i \in 1..Len(map) : map[i].key = key

MapIncr(map, key) ==
    IF MapHas(map, key)
    THEN [i \in 1..Len(map) |-> IF map[i].key = key THEN [key |-> key, count |-> map[i].count + 1] ELSE map[i]]
    ELSE Append(map, [key |-> key, count |-> 1])

\* defaultdict(int): reading d[key] inserts key with 0 when it is missing
MapRead(map, key) == IF MapHas(map, key) THEN map ELSE Append(map, [key |-> key, count |-> 0])

MapGet(map, key) == IF MapHas(map, key) THEN map[CHOOSE i \in 1..Len(map) : map[i].key = key].count ELSE 0

\* mutant: every reference is kept, a list instead of a set
SetAdd_List(elems, x) == Append(elems, x)

\* set.add(x)
SetAdd(elems, x) == IF \E i \in 1..Len(elems) : elems[i] = x THEN elems ELSE Append(elems, x)

(***************************************************************************)
(* auto_configure                                                          *)
(***************************************************************************)
index_path == Join(root_dir, IndexHtml)

\* the base URL read from index.html: canonical, else og:url, else None
DetectedBaseUrl(page) ==
    IF page.canonical \notin {None, <<>>} THEN RStripSlash(page.canonical)
    ELSE IF page.og_url \notin {None, <<>>} THEN RStripSlash(page.og_url)
    ELSE None

AutoConfigure ==
    /\ pc = "start"
    /\ IF index_path \notin fs
       THEN /\ AddIssues(<<Call("ERROR", "Root index.html not found", <<>>, <<>>, 100)>>)
            /\ pc' = "aborted"
            /\ UNCHANGED base_url
       ELSE IF ~site[index_path].readable
       THEN /\ AddIssues(<<Call("ERROR", "Failed to parse index.html", <<>>, <<>>, 100)>>)
            /\ pc' = "aborted"
            /\ UNCHANGED base_url
       ELSE /\ base_url' = DetectedBaseUrl(site[index_path])
            /\ pc' = "scan"
            /\ UNCHANGED <<issues, score, deducted>>
    /\ UNCHANGED <<fs, site, files, internal_links_map, external_links, top_pages, file_i, futures, linkVars, resolveVars, buildVars, pushVars, recVars>>

(***************************************************************************)
(* scan_files                                                              *)
(***************************************************************************)
\* the directory components of a file under root_dir
DirComponents(f) == SelectSeq(Segments(Dirname(RelPath(f))), LAMBDA c : c # <<>>)

Audited(f) ==
    /\ EndsWith(Basename(f), DotHtml)
    /\ \A ignore \in ignore_files : ~HasSubstring(Basename(f), ignore)
    /\ \A i \in 1..Len(DirComponents(f)) : DirComponents(f)[i] \notin ignore_paths

IsPrefix(a, b) == Len(a) <= Len(b) /\ SubSeq(b, 1, Len(a)) = a

\* the orders in which os.walk (top-down) can list the files: a directory's
\* own files before those of its subdirectories, each subtree in one run
WalkOrders(tree) ==
    LET found == {f \in tree : Audited(f)}
        n == Cardinality(found)
    IN  {s \in [1..n -> found] :
            /\ \A i, j \in 1..n : i # j => s[i] # s[j]
            /\ \A i, j \in 1..n : i < j => ~(DirComponents(s[j]) # DirComponents(s[i]) /\ IsPrefix(DirComponents(s[j]), DirComponents(s[i])))
            /\ \A i, j, k \in 1..n : (i < k /\ k < j) =>
                  \A d \in {DirComponents(s[m]) : m \in 1..n} :
                      (IsPrefix(d, DirComponents(s[i])) /\ IsPrefix(d, DirComponents(s[j]))) => IsPrefix(d, DirComponents(s[k]))}

ScanFiles ==
    /\ pc = "scan"
    /\ files' \in WalkOrders(fs)
    /\ IF files' # <<>> THEN file_i' = 1 /\ pc' = "audit" ELSE file_i' = 0 /\ pc' = "check"
    /\ UNCHANGED <<fs, site, base_url, internal_links_map, external_links, score, issues, top_pages, futures, deducted, linkVars, resolveVars, buildVars, pushVars, recVars>>

(***************************************************************************)
(* audit_page                                                              *)
(***************************************************************************)
\* the H1, schema and breadcrumb checks of a page
HeadCalls(file_path) ==
    LET page == site[file_path]
        rel_path == RelPath(file_path)
    IN  When(page.h1s = 0, Call("ERROR", "Missing H1 tag", rel_path, <<>>, 5))
        \o When(page.h1s > 1, Call("WARN", "Multiple H1 tags", rel_path, <<>>, 0))
        \o When(~page.schema, Call("WARN", "Missing Schema", rel_path, <<>>, 2))
        \o When(Basename(file_path) # IndexHtml /\ ~page.breadcrumb /\ rel_path # IndexHtml, Call("WARN", "Missing Breadcrumb", rel_path, <<>>, 0))

IsHttp(href) == StartsWith(href, HttpPrefix) \/ StartsWith(href, HttpsPrefix)

PointsToSelf(href) == base_url \notin {None, <<>>} /\ StartsWith(href, base_url)

Ignored(href) == StartsWithAny(href, ignore_urls_prefixes)

IsExternal(href) == ~Ignored(href) /\ IsHttp(href) /\ ~PointsToSelf(href)

\* mutant: a dead link costs 5 points
AnchorCalls_DeadLinkFive(file_path, href) ==
    When(IsHttp(href) /\ PointsToSelf(href), Call("WARN", "Internal link uses absolute URL", RelPath(file_path), href, 2))
    \o When(~StartsWith(href, Slash) /\ ~StartsWith(href, <<"#">>) /\ ~StartsWith(href, <<"h", "t", "t", "p">>), Call("WARN", "Relative path used", RelPath(file_path), href, 2))
    \o When(EndsWith(href, DotHtml), Call("WARN", ".html suffix used", RelPath(file_path), href, 2))
    \o When(resolve_local_path(fs, base_url, file_path, href) = None, Call("ERROR", "Dead Link", RelPath(file_path), href, 5))

\* the add_issue calls of one anchor that is neither ignored nor external
AnchorCalls(file_path, href) ==
    LET rel_path == RelPath(file_path)
    IN  When(IsHttp(href) /\ PointsToSelf(href), Call("WARN", "Internal link uses absolute URL", rel_path, href, 2))
        \o When(~StartsWith(href, Slash) /\ ~StartsWith(href, <<"#">>) /\ ~StartsWith(href, <<"h", "t", "t", "p">>), Call("WARN", "Relative path used", rel_path, href, 2))
        \o When(EndsWith(href, DotHtml), Call("WARN", ".html suffix used", rel_path, href, 2))
        \o When(resolve_local_path(fs, base_url, file_path, href) = None, Call("ERROR", "Dead Link", rel_path, href, 10))

\* the anchors that reach the dead-link check, and those collected as external
InternalAnchors(anchors) == SelectSeq(anchors, LAMBDA href : ~Ignored(href) /\ ~IsExternal(href))

ExternalAnchors(anchors) == SelectSeq(anchors, IsExternal)

\* the add_issue calls of the link analysis of a page, in call order
LinkCalls(file_path, anchors) == Flatten([i \in 1..Len(InternalAnchors(anchors)) |-> AnchorCalls(file_path, InternalAnchors(anchors)[i])])

\* the target_file values that are not None, in loop order
Targets(file_path, anchors) == SelectSeq([i \in 1..Len(InternalAnchors(anchors)) |-> resolve_local_path(fs, base_url, file_path, InternalAnchors(anchors)[i])], LAMBDA target_file : target_file # None)

\* self.internal_links_map[target_file] += 1, for each target in turn
RECURSIVE MapIncrAll(_, _)
MapIncrAll(map, keys) == IF keys = <<>> THEN map ELSE MapIncrAll(MapIncr(map, Head(keys)), Tail(keys))

\* self.external_links.add(href), for each external href in turn
RECURSIVE SetAddAll(_, _)
SetAddAll(elems, xs) == IF xs = <<>> THEN elems ELSE SetAddAll(SetAdd(elems, Head(xs)), Tail(xs))

\* audit_page(file_path) for the next file of "for file_path in self.files"
AuditPage ==
    /\ pc = "audit"
    /\ IF ~site[files[file_i]].readable
       THEN /\ AddIssues(<<Call("ERROR", "Failed to audit", RelPath(files[file_i]), <<>>, 0)>>)
            /\ UNCHANGED <<internal_links_map, external_links>>
       ELSE /\ AddIssues(HeadCalls(files[file_i]) \o LinkCalls(files[file_i], site[files[file_i]].anchors))
            /\ internal_links_map' = MapIncrAll(internal_links_map, Targets(files[file_i], site[files[file_i]].anchors))
            /\ external_links' = SetAddAll(external_links, ExternalAnchors(site[files[file_i]].anchors))
    /\ IF file_i < Len(files) THEN file_i' = file_i + 1 /\ pc' = "audit" ELSE file_i' = 0 /\ pc' = "check"
    /\ UNCHANGED <<fs, site, base_url, files, top_pages, futures, linkVars, resolveVars, buildVars, pushVars, recVars>>

(***************************************************************************)
(* Names used by the sites of the model                                     *)
(***************************************************************************)
SiteUrl == <<"h", "t", "t", "p", "s", ":", "/", "/", "n", "f", "h", "e", "z", "u", ".", "t", "o", "p">>

OtherUrl == <<"h", "t", "t", "p", "s", ":", "/", "/", "e", ".", "c", "o", "m">>

About == <<"a", "b", "o", "u", "t">>

Blog == <<"b", "l", "o", "g">>

RootFile(name) == Join(root_dir, name)

BlogFile(name) == Join(Join(root_dir, Blog), name)

(***************************************************************************)
(* check_external_links                                                    *)
(***************************************************************************)
\* mutant: the trusted URLs are checked like the others
links_to_check_All(links) == links

\* links_to_check: the collected URLs that are not trusted
links_to_check(links) == SelectSeq(links, LAMBDA u : u \notin trusted_external_links)

\* executor.submit(check_url, url): a future whose check has not started
Submitted(u) == [url |-> u, st |-> "pending", sent |-> <<>>, responses |-> <<>>, result |-> <<>>, raised |-> FALSE, order |-> 0, collected |-> FALSE]

\* the responses a server (or the network) can give to a HEAD and to a GET request
HeadOutcomes == {200, 400, 403, 405, RequestException, OtherException}

GetOutcomes == {200, 403, RequestException}

Running == {i \in 1..Len(futures) : futures[i].st \in {"head", "get"}}

Finished == {i \in 1..Len(futures) : futures[i].st = "done"}

\* mutant: the checks share one result slot, which only the first to finish fills
Done_SharedResult(f, response, result, raised) == [f EXCEPT !.st = "done", !.responses = Append(f.responses, response), !.result = IF Finished = {} THEN result ELSE <<>>, !.raised = raised, !.order = Cardinality(Finished) + 1]

\* check_url ends: result is <<>> for None and <<status>> for (url, status)
Done(f, response, result, raised) == [f EXCEPT !.st = "done", !.responses = Append(f.responses, response), !.result = result, !.raised = raised, !.order = Cardinality(Finished) + 1]

\* mutant: every status >= 400 of the HEAD request is retried with GET
FallsBackToGet_AnyError(status) == status >= 400

\* "if response.status_code == 405 or response.status_code == 403"
FallsBackToGet(status) == status = 405 \/ status = 403

\* "if response.status_code >= 400: return url, response.status_code"
IsBroken(status) == status >= 400

\* the future after the response to its last request, HEAD or GET
AfterResponse(f, response) ==
    IF response = OtherException THEN Done(f, response, <<>>, TRUE)
    ELSE IF response = RequestException THEN Done(f, response, <<RequestException>>, FALSE)
    ELSE IF f.st = "head" /\ FallsBackToGet(response) THEN [f EXCEPT !.st = "get", !.sent = Append(f.sent, "GET"), !.responses = Append(f.responses, response)]
    ELSE IF IsBroken(response) THEN Done(f, response, <<response>>, FALSE)
    ELSE Done(f, response, <<>>, FALSE)

\* "futures = [executor.submit(check_url, url) for url in links_to_check]"
SubmitChecks ==
    /\ pc = "check"
    /\ futures' = [i \in 1..Len(links_to_check(external_links)) |-> Submitted(links_to_check(external_links)[i])]
    /\ pc' = "collect"
    /\ UNCHANGED <<fs, site, base_url, files, internal_links_map, external_links, score, issues, top_pages, file_i, deducted, linkVars, resolveVars, buildVars, pushVars, recVars>>

\* mutant: the executor starts a thread for every submitted check
WorkerIdle_NoLimit(running) == TRUE

\* ThreadPoolExecutor(max_workers=10): a check starts only on a worker that is free
WorkerIdle(running) == Cardinality(running) < max_workers

\* a worker thread of the pool takes a pending check and sends its HEAD request
WorkerSendsHead(i) ==
    /\ pc \in {"collect", "unwind"}
    /\ futures[i].st = "pending"
    /\ WorkerIdle(Running)
    /\ futures' = [futures EXCEPT ![i] = [@ EXCEPT !.st = "head", !.sent = <<"HEAD">>]]
    /\ UNCHANGED <<fs, site, base_url, pc, files, internal_links_map, external_links, score, issues, top_pages, file_i, deducted, linkVars, resolveVars, buildVars, pushVars, recVars>>

\* the request in flight of check i is answered
WorkerGetsResponse(i, response) ==
    /\ pc \in {"collect", "unwind"}
    /\ futures[i].st \in {"head", "get"}
    /\ response \in IF futures[i].st = "head" THEN HeadOutcomes ELSE GetOutcomes
    /\ futures' = [futures EXCEPT ![i] = AfterResponse(@, response)]
    /\ UNCHANGED <<fs, site, base_url, pc, files, internal_links_map, external_links, score, issues, top_pages, file_i, deducted, linkVars, resolveVars, buildVars, pushVars, recVars>>

\* as_completed yields the finished futures in the order in which they finished
NextCompleted(i) ==
    /\ futures[i].st = "done"
    /\ ~futures[i].collected
    /\ \A j \in 1..Len(futures) : (futures[j].st = "done" /\ ~futures[j].collected) => futures[i].order <= futures[j].order

\* one iteration of "for future in as_completed(futures)", on the submitting thread
CollectResult(i) ==
    /\ pc = "collect"
    /\ NextCompleted(i)
    /\ futures' = [futures EXCEPT ![i] = [@ EXCEPT !.collected = TRUE]]
    /\ IF futures[i].raised
       THEN pc' = "unwind" /\ UNCHANGED <<issues, score, deducted>>
       ELSE /\ pc' = pc
            /\ AddIssues(When(futures[i].result # <<>>, Call("ERROR", "Broken External Link", futures[i].url, futures[i].result, 5)))
    /\ UNCHANGED <<fs, site, base_url, files, internal_links_map, external_links, top_pages, file_i, linkVars, resolveVars, buildVars, pushVars, recVars>>

\* every future is collected: the executor is shut down and run calls analyze_equity
FinishChecks ==
    /\ pc = "collect"
    /\ \A i \in 1..Len(futures) : futures[i].collected
    /\ pc' = "equity"
    /\ UNCHANGED <<fs, site, base_url, files, internal_links_map, external_links, score, issues, top_pages, file_i, futures, deducted, linkVars, resolveVars, buildVars, pushVars, recVars>>

\* future.result() raised: the executor waits for its threads, then the
\* exception leaves check_external_links and run
Unwind ==
    /\ pc = "unwind"
    /\ \A i \in 1..Len(futures) : futures[i].st = "done"
    /\ pc' = "crashed"
    /\ UNCHANGED <<fs, site, base_url, files, internal_links_map, external_links, score, issues, top_pages, file_i, futures, deducted, linkVars, resolveVars, buildVars, pushVars, recVars>>

(***************************************************************************)
(* analyze_equity                                                          *)
(***************************************************************************)
\* mutant: the home page is not exempt from the orphan check
AfterOrphanCheck_NoExemption(file_path, acc) ==
    [map |-> MapRead(acc.map, file_path),
     calls |-> acc.calls \o When(MapGet(acc.map, file_path) = 0, Call("WARN", "Orphan Page", RelPath(file_path), <<>>, 5))]

\* one iteration of the orphan loop: acc holds the tally and the add_issue calls
AfterOrphanCheck(file_path, acc) ==
    IF RelPath(file_path) = IndexHtml THEN acc
    ELSE [map |-> MapRead(acc.map, file_path),
          calls |-> acc.calls \o When(MapGet(acc.map, file_path) = 0, Call("WARN", "Orphan Page", RelPath(file_path), <<>>, 5))]

RECURSIVE OrphanLoop(_, _)
OrphanLoop(paths, acc) == IF paths = <<>> THEN acc ELSE OrphanLoop(Tail(paths), AfterOrphanCheck(Head(paths), acc))

\* sorted(items, key=count, reverse=True): a stable sort, equal counts keep their order
InsertDesc(sorted, x) ==
    LET before == {i \in 1..Len(sorted) : \A j \in 1..i : sorted[j].count >= x.count}
        k == Cardinality(before)
    IN  SubSeq(sorted, 1, k) \o <<x>> \o SubSeq(sorted, k + 1, Len(sorted))

RECURSIVE SortedDesc(_)
SortedDesc(items) == IF items = <<>> THEN <<>> ELSE InsertDesc(SortedDesc(DropLast(items, 1)), items[Len(items)])

\* sorted_pages[:10]
TopOf(map) == SubSeq(SortedDesc(map), 1, IF Len(map) < TopPagesLen THEN Len(map) ELSE TopPagesLen)

AnalyzeEquity ==
    /\ pc = "equity"
    /\ LET after == OrphanLoop(files, [map |-> internal_links_map, calls |-> <<>>])
       IN  /\ AddIssues(after.calls)
           /\ internal_links_map' = after.map
           /\ top_pages' = TopOf(after.map)
    /\ pc' = "done"
    /\ UNCHANGED <<fs, site, base_url, files, external_links, file_i, futures, linkVars, resolveVars, buildVars, pushVars, recVars>>

(***************************************************************************)
(* build.py: the parsed page. A tag that process_links visits is a record  *)
(* of its name and attributes; an absent href, src or content is None, an  *)
(* absent hreflang or type is "". rel is kept in the form the parser or    *)
(* new_tag gives it: a list of tokens or a string.                         *)
(***************************************************************************)
\* the None that find and get return for a tag or a rel that is not there
NotFound == [found |-> FALSE]

\* the None in the place of a list of blocks or cards
NoBlocks == <<NotFound>>

RelList(tokens) == [form |-> "list", tokens |-> tokens]

RelStr(token) == [form |-> "str", tokens |-> <<token>>]

Tag(name, href, rel) == [name |-> name, href |-> href, src |-> None, rel |-> rel, hreflang |-> "", type |-> "", onclick |-> FALSE, content |-> None]

SiteDomain == <<"n", "f", "h", "e", "z", "u", ".", "t", "o", "p">>

BlogPrefix == <<"/", "b", "l", "o", "g", "/">>

Index == <<"i", "n", "d", "e", "x">>

\* the prefixes that make a link not page-relative for process_links
NotRelativePrefixes == SkipPrefixes \cup {Slash}

known_anchors == {<<"p", "l", "a", "t", "f", "o", "r", "m", "s">>, <<"c", "o", "m", "p", "a", "r", "e">>, <<"g", "u", "i", "d", "e">>, <<"f", "a", "q">>, <<"r", "e", "v", "i", "e", "w", "s">>}

\* "Fix relative links": a page-relative link of a blog page becomes root-relative
FixRelative(u, is_blog) ==
    IF is_blog /\ u # <<>> /\ ~StartsWithAny(u, NotRelativePrefixes)
    THEN IF StartsWith(u, <<".", ".", "/">>) THEN Slash \o DropFirst(u, 3)
         ELSE IF u = Index \/ u = IndexHtml THEN BlogPrefix
         ELSE BlogPrefix \o u
    ELSE u

\* "Fix /index"
FixIndex(u) ==
    IF u = Slash \o Index \/ u = Slash \o IndexHtml THEN Slash
    ELSE IF StartsWith(u, Slash \o IndexHtml \o <<"#">>) THEN <<"/", "#">> \o DropFirst(u, 12)
    ELSE IF StartsWith(u, Slash \o Index \o <<"#">>) THEN <<"/", "#">> \o DropFirst(u, 7)
    ELSE u

\* "Fix known homepage anchors"
FixKnownAnchor(u) == IF \E anchor \in known_anchors : u = Slash \o anchor THEN <<"/", "#">> \o DropFirst(u, 1) ELSE u

\* the href that process_links stores
ProcessedHref(u, is_blog) == clean_link(FixKnownAnchor(FixIndex(FixRelative(u, is_blog))))

\* rel as a list: "rel = tag.get('rel', []); if isinstance(rel, str): rel = rel.split()"
RelTokens(rel) == IF rel = NotFound THEN <<>> ELSE rel.tokens

RECURSIVE AppendMissing(_, _)
AppendMissing(tokens, vals) ==
    IF vals = <<>> THEN tokens
    ELSE AppendMissing(IF \E i \in 1..Len(tokens) : tokens[i] = Head(vals) THEN tokens ELSE Append(tokens, Head(vals)), Tail(vals))

\* "if 'nfhezu.top' not in href"
IsForeign(href) == ~HasSubstring(href, SiteDomain)

\* the rel that process_links leaves on a tag whose stored href is href
ProcessedRel(rel, href) ==
    IF href # <<>> /\ (StartsWith(href, HttpPrefix) \/ StartsWith(href, HttpsPrefix)) /\ IsForeign(href)
    THEN RelList(AppendMissing(RelTokens(rel), <<"nofollow", "noopener", "noreferrer">>))
    ELSE rel

\* process_links on one tag
ProcessTag(tag, is_blog) ==
    [tag EXCEPT !.href = IF tag.href = None THEN None ELSE ProcessedHref(tag.href, is_blog),
                !.rel = IF tag.href = None THEN tag.rel ELSE ProcessedRel(tag.rel, ProcessedHref(tag.href, is_blog)),
                !.src = IF tag.src = None THEN None ELSE clean_link(tag.src)]

ProcessTags(tags, is_blog) == [i \in 1..Len(tags) |-> ProcessTag(tags[i], is_blog)]


(***************************************************************************)
(* build.py: rebuild_head                                                  *)
(***************************************************************************)
\* canonical_url of a page, from its file name
CanonicalUrl(filename, is_blog) ==
    LET clean_fn == IF clean_link(filename) = Index THEN <<>> ELSE clean_link(filename)
    IN  IF is_blog THEN SiteUrl \o BlogPrefix \o clean_fn ELSE SiteUrl \o Slash \o clean_fn

Canonical(u) == Tag("link", u, RelStr("canonical"))

Alternate(u, lang) == [Tag("link", u, RelStr("alternate")) EXCEPT !.hreflang = lang]

JsonLd(u) == [Tag("script", None, NotFound) EXCEPT !.type = "application/ld+json", !.content = u]

\* the rel tokens that contain 'icon'
IconTokens == {"icon", "apple-touch-icon"}

HasIcon(rel) == \E i \in 1..Len(RelTokens(rel)) : RelTokens(rel)[i] \in IconTokens

\* mutant: an old canonical link is carried over to the new head
Carried_KeepsCanonical(tag) ==
    /\ ~(tag.name = "link" /\ HasIcon(tag.rel))
    /\ ~(tag.name = "link" /\ tag.rel = RelList(<<"alternate">>))
    /\ ~(tag.name = "script" /\ tag.type = "application/ld+json")

\* the link and script tags of the old head that rebuild_head appends to the new one
Carried(tag) ==
    /\ ~(tag.name = "link" /\ HasIcon(tag.rel))
    /\ ~(tag.name = "link" /\ tag.rel = RelList(<<"canonical">>))
    /\ ~(tag.name = "link" /\ tag.rel = RelList(<<"alternate">>))
    /\ ~(tag.name = "script" /\ tag.type = "application/ld+json")

rebuild_head(page, filename, favicons, is_blog) ==
    [page EXCEPT !.head =
        [title |-> IF page.head.title # "" THEN page.head.title ELSE filename,
         desc |-> page.head.desc,
         keywords |-> page.head.keywords,
         tags |-> <<Canonical(CanonicalUrl(filename, is_blog)),
                    Alternate(CanonicalUrl(filename, is_blog), "x-default"),
                    Alternate(CanonicalUrl(filename, is_blog), "zh"),
                    Alternate(CanonicalUrl(filename, is_blog), "zh-CN")>>
                  \o favicons
                  \o SelectSeq(page.head.tags, Carried)
                  \o <<JsonLd(CanonicalUrl(filename, is_blog))>>]]

(***************************************************************************)
(* build.py: ensure_breadcrumb_html, fix_styles, ensure_author_date_visible *)
(***************************************************************************)
Nav(id, aria, home, where, links) == [id |-> id, aria |-> aria, home |-> home, where |-> where, links |-> links]

InsertAt(seq, k, x) == SubSeq(seq, 1, k - 1) \o <<x>> \o SubSeq(seq, k, Len(seq))

\* the navs that are candidates for the breadcrumb: not 'main-nav', text with the home label
BreadcrumbCandidates(navs) == {i \in 1..Len(navs) : navs[i].id # "main-nav" /\ navs[i].home}

NewBreadcrumb(is_blog) == Nav("", "breadcrumb", TRUE, "main", <<Tag("a", Slash, NotFound)>> \o (IF is_blog THEN <<Tag("a", BlogPrefix, NotFound)>> ELSE <<>>))

ensure_breadcrumb_html(page, is_blog) ==
    IF BreadcrumbCandidates(page.navs) # {}
    THEN [page EXCEPT !.navs[CHOOSE i \in BreadcrumbCandidates(page.navs) : \A j \in BreadcrumbCandidates(page.navs) : i <= j].aria = "breadcrumb"]
    ELSE IF page.main
    THEN [page EXCEPT !.navs = InsertAt(page.navs, Cardinality({i \in 1..Len(page.navs) : page.navs[i].where = "before"}) + 1, NewBreadcrumb(is_blog))]
    ELSE page

fix_styles(page) == [page EXCEPT !.style = "fixed"]

ensure_author_date_visible(page) == IF page.header = "plain" THEN [page EXCEPT !.header = "dated"] ELSE page

(***************************************************************************)
(* build.py: process_file, the nav and footer swap                         *)
(***************************************************************************)
\* mutant: only the bare '#' is rewritten
RewriteFragment_OnlyBare(tag) ==
    [tag EXCEPT !.href = IF tag.href \in {<<"#">>, <<"/", "#">>} THEN Slash ELSE tag.href,
                !.onclick = FALSE]

\* the loop body over the anchors of the copied nav or footer
RewriteFragment(tag) ==
    [tag EXCEPT !.href = IF tag.href = None THEN None
                         ELSE IF tag.href \in {<<"#">>, <<"/", "#">>} THEN Slash
                         ELSE IF StartsWith(tag.href, <<"#">>) THEN Slash \o tag.href
                         ELSE tag.href,
                !.onclick = FALSE]

RewriteFragments(links) == [i \in 1..Len(links) |-> RewriteFragment(links[i])]

\* soup.find('nav', id='main-nav') or soup.find('nav'): its index, 0 when there is none
OldNav(navs) ==
    IF \E i \in 1..Len(navs) : navs[i].id = "main-nav"
    THEN CHOOSE i \in 1..Len(navs) : navs[i].id = "main-nav" /\ \A j \in 1..(i - 1) : navs[j].id # "main-nav"
    ELSE IF navs # <<>> THEN 1 ELSE 0

\* the page after the nav swap; canonical is assets['nav']
SwapNav(page, canonical) ==
    IF OldNav(page.navs) # 0
    THEN [page EXCEPT !.navs[OldNav(page.navs)] = [canonical EXCEPT !.where = page.navs[OldNav(page.navs)].where, !.links = RewriteFragments(canonical.links)]]
    ELSE IF page.body THEN [page EXCEPT !.navs = <<[canonical EXCEPT !.where = "before"]>> \o page.navs]
    ELSE page

\* the page after the footer swap; canonical is assets['footer']
SwapFooter(page, canonical) ==
    IF page.footer # NotFound THEN [page EXCEPT !.footer = [links |-> RewriteFragments(canonical.links)]]
    ELSE IF page.body THEN [page EXCEPT !.footer = canonical]
    ELSE page

\* the swaps raise when index.html has no nav or no footer to copy or insert
SwapRaises(page, assets_) ==
    \/ assets_.nav = NotFound /\ (OldNav(page.navs) # 0 \/ page.body)
    \/ assets_.footer = NotFound /\ (page.footer # NotFound \/ page.body)

\* assets['nav'] itself is in the page when the page had no nav
NavInserted(page) == OldNav(page.navs) = 0 /\ page.body

FooterInserted(page) == page.footer = NotFound /\ page.body

(***************************************************************************)
(* build.py: generate_recommendations and the recommendation block         *)
(***************************************************************************)
ExcludedPost == <<"h", "o", "w", "-", "t", "o", "-", "c", "h", "a", "n", "g", "e", "-", "n", "e", "t", "f", "l", "i", "x", "-", "l", "a", "n", "g", "u", "a", "g", "e", "-", "t", "o", "-", "c", "h", "i", "n", "e", "s", "e", ".", "h", "t", "m", "l">>

RecCount == 4

others(current_filename, posts) == SelectSeq(posts, LAMBDA p : p.filename # current_filename /\ p.filename # ExcludedPost)

\* random.sample(others, count): the sequences of count different posts
Samples(posts, count) == {[i \in 1..count |-> posts[s[i]]] : s \in {t \in [1..count -> 1..Len(posts)] : \A i, j \in 1..count : i # j => t[i] # t[j]}}

\* the possible values of recs
RecChoices(current_filename, posts) ==
    IF Len(others(current_filename, posts)) < RecCount THEN {others(current_filename, posts)}
    ELSE Samples(others(current_filename, posts), RecCount)

Block(kind, links) == [kind |-> kind, links |-> links]

\* the card of a post: an article with one anchor to the post
Card(post) == Tag("a", post.url, NotFound)

\* generate_recommendations' result for recs: None, or the block of the cards
RecommendationBlock(recs) == IF recs = <<>> THEN NotFound ELSE Block("rec", [i \in 1..Len(recs) |-> Card(recs[i])])

\* generate_recommendations(current_filename, all_posts): the values it can return
generate_recommendations(current_filename, posts) == {RecommendationBlock(r) : r \in RecChoices(current_filename, posts)}

\* mutant: the earlier recommendation section is kept
Decomposed_KeepsSection(block) == block.kind \in {"legacy16", "legacy12", "h3div", "plink"}

\* the blocks that process_file decomposes: the recommendation section, the
\* legacy sections, a bordered div around a recommendation heading, and a
\* paragraph with a recommendation phrase and a link
Decomposed(block) == block.kind \in {"rec", "legacy16", "legacy12", "h3div", "plink"}

\* the article after the recommendation step
InjectRecs(page, recs) ==
    IF page.article = NoBlocks THEN page
    ELSE [page EXCEPT !.article = SelectSeq(page.article, LAMBDA b : ~Decomposed(b)) \o (IF RecommendationBlock(recs) = NotFound THEN <<>> ELSE <<RecommendationBlock(recs)>>)]

(***************************************************************************)
(* build.py: process_links over the page, and the file as written and read  *)
(***************************************************************************)
process_links(page, is_blog) ==
    [page EXCEPT !.head = IF page.head = NotFound THEN NotFound ELSE [page.head EXCEPT !.tags = ProcessTags(page.head.tags, is_blog)],
                 !.navs = [i \in 1..Len(page.navs) |-> [page.navs[i] EXCEPT !.links = ProcessTags(page.navs[i].links, is_blog)]],
                 !.footer = IF page.footer = NotFound THEN NotFound ELSE [links |-> ProcessTags(page.footer.links, is_blog)],
                 !.article = IF page.article = NoBlocks THEN NoBlocks ELSE [i \in 1..Len(page.article) |-> [page.article[i] EXCEPT !.links = ProcessTags(page.article[i].links, is_blog)]],
                 !.cards = IF page.cards = NoBlocks THEN NoBlocks ELSE ProcessTags(page.cards, is_blog),
                 !.links = ProcessTags(page.links, is_blog)]

\* prettify writes rel as text and the parser reads it back as a list of tokens
ParsedTag(tag) == [tag EXCEPT !.rel = IF tag.rel = NotFound THEN NotFound ELSE RelList(tag.rel.tokens)]

ParsedTags(tags) == [i \in 1..Len(tags) |-> ParsedTag(tags[i])]

\* BeautifulSoup(read_file(path)) of a file written with soup.prettify()
Parsed(page) ==
    [page EXCEPT !.head = IF page.head = NotFound THEN NotFound ELSE [page.head EXCEPT !.tags = ParsedTags(page.head.tags)],
                 !.navs = [i \in 1..Len(page.navs) |-> [page.navs[i] EXCEPT !.links = ParsedTags(page.navs[i].links)]],
                 !.footer = IF page.footer = NotFound THEN NotFound ELSE [links |-> ParsedTags(page.footer.links)],
                 !.article = IF page.article = NoBlocks THEN NoBlocks ELSE [i \in 1..Len(page.article) |-> [page.article[i] EXCEPT !.links = ParsedTags(page.article[i].links)]],
                 !.cards = IF page.cards = NoBlocks THEN NoBlocks ELSE ParsedTags(page.cards),
                 !.links = ParsedTags(page.links)]

\* the soup when process_file reaches the nav swap
Prepared(page, filename, favicons, is_blog, inject_recs) ==
    LET headed == ensure_breadcrumb_html(rebuild_head(page, filename, favicons, is_blog), is_blog)
        styled == IF is_blog THEN fix_styles(headed) ELSE headed
    IN  IF is_blog /\ inject_recs THEN ensure_author_date_visible(styled) ELSE styled

\* process_file raises: the file is not UTF-8, has no head, or a swap fails
ProcessFileRaises(page, filename, assets_, is_blog, inject_recs) ==
    \/ ~page.readable
    \/ page.head = NotFound
    \/ SwapRaises(Prepared(page, filename, assets_.favicons, is_blog, inject_recs), assets_)

\* the soup that process_file writes, for the recommendations recs
process_file(page, filename, assets_, recs, is_blog, inject_recs) ==
    LET swapped == SwapFooter(SwapNav(Prepared(page, filename, assets_.favicons, is_blog, inject_recs), assets_.nav), assets_.footer)
        injected == IF is_blog /\ inject_recs THEN InjectRecs(swapped, recs) ELSE swapped
    IN  process_links(injected, is_blog)

\* assets after process_file: a nav or footer inserted without a copy is the
\* object that process_links has just rewritten
AssetsAfter(page, filename, assets_, is_blog, inject_recs) ==
    LET prepared == Prepared(page, filename, assets_.favicons, is_blog, inject_recs)
    IN  [assets_ EXCEPT !.nav = IF NavInserted(prepared) THEN [assets_.nav EXCEPT !.where = "before", !.links = ProcessTags(assets_.nav.links, is_blog)] ELSE assets_.nav,
                        !.footer = IF FooterInserted(prepared) THEN [links |-> ProcessTags(assets_.footer.links, is_blog)] ELSE assets_.footer]


(***************************************************************************)
(* build.py: main and the steps it calls                                   *)
(***************************************************************************)
INDEX_FILE == Join(root_dir, IndexHtml)

BLOG_DIR == Join(root_dir, Blog)

BLOG_INDEX_FILE == Join(BLOG_DIR, IndexHtml)

PrivacyHtml == <<"p", "r", "i", "v", "a", "c", "y", ".", "h", "t", "m", "l">>

DisclaimerHtml == <<"d", "i", "s", "c", "l", "a", "i", "m", "e", "r", ".", "h", "t", "m", "l">>

root_files_to_process == <<PrivacyHtml, DisclaimerHtml>>

SitemapXml == <<"s", "i", "t", "e", "m", "a", "p", ".", "x", "m", "l">>

SITEMAP_FILE == Join(root_dir, SitemapXml)

\* os.path.exists(path) for an HTML file
Exists(d, path) == path \in DOMAIN d

\* write_file(path, soup.prettify()): the file holds what a later parse reads
Written(d, path, soup) == [p \in DOMAIN d \cup {path} |-> IF p = path THEN [Parsed(soup) EXCEPT !.readable = TRUE] ELSE d[p]]

\* extract_assets: the favicon links of index.html, hrefs forced root-relative
Favicon(link) ==
    [link EXCEPT !.href = IF link.href \notin {None, <<>>} /\ ~StartsWithAny(link.href, {<<"h", "t", "t", "p", ":">>, <<"h", "t", "t", "p", "s", ":">>, <<"d", "a", "t", "a", ":">>}) /\ ~StartsWith(link.href, Slash)
                         THEN Slash \o link.href ELSE link.href]

Favicons(page) == IF page.head = NotFound THEN <<>> ELSE [i \in 1..Len(SelectSeq(page.head.tags, LAMBDA t : t.name = "link" /\ HasIcon(t.rel))) |-> Favicon(SelectSeq(page.head.tags, LAMBDA t : t.name = "link" /\ HasIcon(t.rel))[i])]

\* extract_assets: the nav and footer of index.html after process_links on them
extract_assets(page) ==
    [nav |-> IF OldNav(page.navs) = 0 THEN NotFound ELSE [page.navs[OldNav(page.navs)] EXCEPT !.links = ProcessTags(@, FALSE)],
     footer |-> IF page.footer = NotFound THEN NotFound ELSE [links |-> ProcessTags(page.footer.links, FALSE)],
     favicons |-> Favicons(page)]

\* the names that os.listdir(BLOG_DIR) yields and the builder treats as posts
IsPost(filename) == EndsWith(filename, DotHtml) /\ filename # IndexHtml

Post(filename, t) == [filename |-> filename, url |-> BlogPrefix \o clean_link(filename), mtime |-> t]

\* posts.sort(key=mtime, reverse=True): a stable sort
InsertByMtime(sorted, x) ==
    LET k == Cardinality({i \in 1..Len(sorted) : \A j \in 1..i : sorted[j].mtime >= x.mtime})
    IN  SubSeq(sorted, 1, k) \o <<x>> \o SubSeq(sorted, k + 1, Len(sorted))

RECURSIVE SortedByMtime(_)
SortedByMtime(posts) == IF posts = <<>> THEN <<>> ELSE InsertByMtime(SortedByMtime(DropLast(posts, 1)), posts[Len(posts)])

get_blog_posts(names, times) == SortedByMtime([i \in 1..Len(SelectSeq(names, IsPost)) |-> Post(SelectSeq(names, IsPost)[i], times[Join(BLOG_DIR, SelectSeq(names, IsPost)[i])])])

\* the cards of the first n posts
Cards(posts, n) == [i \in 1..(IF Len(posts) < n THEN Len(posts) ELSE n) |-> Card(posts[i])]

LatestCount == 4

\* the namespace of the Sitemap protocol
SitemapNs == "http://www.sitemaps.org/schemas/sitemap/0.9"

\* generate_sitemap writes each value between <loc> and </loc> as it is, in a
\* urlset element of the Sitemap namespace
SitemapWritten(locs) == [found |-> TRUE, xmlns |-> SitemapNs, locs |-> locs]

\* generate_sitemap: the <loc> values of sitemap.xml, in file order
generate_sitemap(d, posts) ==
    <<SiteUrl \o Slash, SiteUrl \o BlogPrefix>>
    \o [i \in 1..Len(posts) |-> SiteUrl \o posts[i].url]
    \o [i \in 1..Len(SelectSeq(root_files_to_process, LAMBDA f : Exists(d, Join(root_dir, f)))) |-> SiteUrl \o Slash \o clean_link(SelectSeq(root_files_to_process, LAMBDA f : Exists(d, Join(root_dir, f)))[i])]

\* mutant: a missing index.html does not stop main
AfterIndexCheck_GoesOn(d) == IF Exists(d, INDEX_FILE) THEN "assets" ELSE "posts"

\* "if not os.path.exists(INDEX_FILE): ... return"
AfterIndexCheck(d) == IF Exists(d, INDEX_FILE) THEN "assets" ELSE "returned"

\* a write of the builder: the file, its modification time, the history
WriteFile(path, soup) ==
    /\ disk' = Written(disk, path, soup)
    /\ mtimes' = [p \in DOMAIN mtimes \cup {path} |-> IF p = path THEN clock ELSE mtimes[p]]
    /\ clock' = clock + 1
    /\ written' = Append(written, path)

NoWrite == UNCHANGED <<disk, mtimes, clock, written>>

\* main: the check of index.html
MainStart ==
    /\ bpc = "start"
    /\ bpc' = AfterIndexCheck(disk)
    /\ NoWrite
    /\ UNCHANGED <<sitemap, listing, assets, all_posts, file_k, runs, fs, base_url, linkVars, resolveVars, auditVars, pushVars, recVars>>

\* "assets = extract_assets()"
ExtractAssets ==
    /\ bpc = "assets"
    /\ IF ~Exists(disk, INDEX_FILE) THEN bpc' = "returned" /\ UNCHANGED assets
       ELSE IF ~disk[INDEX_FILE].readable THEN bpc' = "crashed" /\ UNCHANGED assets
       ELSE bpc' = "posts" /\ assets' = extract_assets(disk[INDEX_FILE])
    /\ NoWrite
    /\ UNCHANGED <<sitemap, listing, all_posts, file_k, runs, fs, base_url, linkVars, resolveVars, auditVars, pushVars, recVars>>

\* "all_posts = get_blog_posts()"
GetBlogPosts ==
    /\ bpc = "posts"
    /\ IF \E i \in 1..Len(listing) : IsPost(listing[i]) /\ ~disk[Join(BLOG_DIR, listing[i])].readable
       THEN bpc' = "crashed" /\ UNCHANGED all_posts
       ELSE bpc' = "index" /\ all_posts' = get_blog_posts(listing, mtimes)
    /\ NoWrite
    /\ UNCHANGED <<sitemap, listing, assets, file_k, runs, fs, base_url, linkVars, resolveVars, auditVars, pushVars, recVars>>

\* update_index_html(all_posts)
UpdateIndexHtml ==
    /\ bpc = "index"
    /\ IF ~Exists(disk, INDEX_FILE) \/ disk[INDEX_FILE].cards = NoBlocks
       THEN NoWrite
       ELSE WriteFile(INDEX_FILE, [disk[INDEX_FILE] EXCEPT !.cards = Cards(all_posts, LatestCount)])
    /\ bpc' = "blogindex"
    /\ UNCHANGED <<sitemap, listing, assets, all_posts, file_k, runs, fs, base_url, linkVars, resolveVars, auditVars, pushVars, recVars>>

\* update_blog_index_html(all_posts)
UpdateBlogIndexHtml ==
    /\ bpc = "blogindex"
    /\ IF ~Exists(disk, BLOG_INDEX_FILE) THEN bpc' = "sitemap" /\ NoWrite
       ELSE IF ~disk[BLOG_INDEX_FILE].readable THEN bpc' = "crashed" /\ NoWrite
       ELSE IF disk[BLOG_INDEX_FILE].cards = NoBlocks THEN bpc' = "sitemap" /\ NoWrite
       ELSE bpc' = "sitemap" /\ WriteFile(BLOG_INDEX_FILE, [disk[BLOG_INDEX_FILE] EXCEPT !.cards = Cards(all_posts, Len(all_posts))])
    /\ UNCHANGED <<sitemap, listing, assets, all_posts, file_k, runs, fs, base_url, linkVars, resolveVars, auditVars, pushVars, recVars>>

\* generate_sitemap(all_posts)
GenerateSitemap ==
    /\ bpc = "sitemap"
    /\ sitemap' = generate_sitemap(disk, all_posts)
    /\ sitemap_file' = SitemapWritten(sitemap')
    /\ written' = Append(written, SITEMAP_FILE)
    /\ bpc' = "blog"
    /\ file_k' = 1
    /\ UNCHANGED <<disk, mtimes, clock, listing, assets, all_posts, runs, fs, base_url, linkVars, resolveVars, auditVars, ipc, site_urls, requests, plog, recVars>>

\* process_file(file_path, assets, all_posts, is_blog, inject_recs), called by main
ProcessFile(path, is_blog, inject_recs, next_pc, next_k) ==
    IF ProcessFileRaises(disk[path], Basename(path), assets, is_blog, inject_recs)
    THEN /\ bpc' = "crashed"
         /\ NoWrite
         /\ UNCHANGED <<assets, file_k>>
    ELSE /\ \E recs \in RecChoices(Basename(path), all_posts) :
                WriteFile(path, process_file(disk[path], Basename(path), assets, recs, is_blog, inject_recs))
         /\ assets' = AssetsAfter(disk[path], Basename(path), assets, is_blog, inject_recs)
         /\ bpc' = next_pc
         /\ file_k' = next_k

\* one iteration of "for filename in os.listdir(BLOG_DIR)"
ProcessBlogFile ==
    /\ bpc = "blog"
    /\ file_k <= Len(listing)
    /\ IF ~EndsWith(listing[file_k], DotHtml)
       THEN /\ NoWrite
            /\ bpc' = "blog"
            /\ file_k' = file_k + 1
            /\ UNCHANGED assets
       ELSE ProcessFile(Join(BLOG_DIR, listing[file_k]), TRUE, listing[file_k] # IndexHtml, "blog", file_k + 1)
    /\ UNCHANGED <<sitemap, listing, all_posts, runs, fs, base_url, linkVars, resolveVars, auditVars, pushVars, recVars>>

\* the blog loop is over
BlogFilesDone ==
    /\ bpc = "blog"
    /\ file_k > Len(listing)
    /\ bpc' = "root"
    /\ file_k' = 1
    /\ NoWrite
    /\ UNCHANGED <<sitemap, listing, assets, all_posts, runs, fs, base_url, linkVars, resolveVars, auditVars, pushVars, recVars>>

\* one iteration of "for filename in root_files_to_process"
ProcessRootFile ==
    /\ bpc = "root"
    /\ file_k <= Len(root_files_to_process)
    /\ IF ~Exists(disk, Join(root_dir, root_files_to_process[file_k]))
       THEN /\ NoWrite
            /\ bpc' = "root"
            /\ file_k' = file_k + 1
            /\ UNCHANGED assets
       ELSE ProcessFile(Join(root_dir, root_files_to_process[file_k]), FALSE, TRUE, "root", file_k + 1)
    /\ UNCHANGED <<sitemap, listing, all_posts, runs, fs, base_url, linkVars, resolveVars, auditVars, pushVars, recVars>>

\* "Build Complete."
BuildComplete ==
    /\ bpc = "root"
    /\ file_k > Len(root_files_to_process)
    /\ bpc' = "complete"
    /\ runs' = runs + 1
    /\ NoWrite
    /\ UNCHANGED <<sitemap, listing, assets, all_posts, file_k, fs, base_url, linkVars, resolveVars, auditVars, pushVars, recVars>>

\* the number of runs in a row that the model follows
MaxRuns == 2

\* the builder is run again on the site it has written
RunAgain ==
    /\ bpc = "complete"
    /\ runs < MaxRuns
    /\ bpc' = "start"
    /\ assets' = NotFound
    /\ all_posts' = <<>>
    /\ file_k' = 0
    /\ written' = <<>>
    /\ UNCHANGED <<disk, mtimes, clock, sitemap, listing, runs, fs, base_url, linkVars, resolveVars, auditVars, pushVars, recVars>>

(***************************************************************************)
(* push_indexnow.py                                                        *)
(***************************************************************************)
HOST == SiteDomain

KEY == "8d493f761bc146c994dc76029412a3bc"

\* the outcome of a parse that raises ParseError
XmlError == <<"ParseError">>

\* the entity references that XML predefines and the characters they stand for
Entities ==
    {[ref |-> <<"a", "m", "p", ";">>, ch |-> "&"], [ref |-> <<"l", "t", ";">>, ch |-> "<"], [ref |-> <<"g", "t", ";">>, ch |-> ">"]}

\* the text of an element as ElementTree reports it, from the characters
\* between its tags: references are decoded, a bare & or < is not well-formed
RECURSIVE XmlText(_)
XmlText(raw) ==
    IF raw = <<>> THEN <<>>
    ELSE IF raw[1] = "<" THEN XmlError
    ELSE IF raw[1] = "&"
         THEN IF \A e \in Entities : ~StartsWith(Tail(raw), e.ref) THEN XmlError
              ELSE LET e == CHOOSE x \in Entities : StartsWith(Tail(raw), x.ref)
                       rest == XmlText(DropFirst(raw, 1 + Len(e.ref)))
                   IN  IF rest = XmlError THEN XmlError ELSE <<e.ch>> \o rest
    ELSE LET rest == XmlText(Tail(raw))
         IN  IF rest = XmlError THEN XmlError ELSE <<raw[1]>> \o rest

Whitespace == {" ", NL}

\* str.strip()
RECURSIVE Strip(_)
Strip(s) ==
    IF s = <<>> THEN <<>>
    ELSE IF s[1] \in Whitespace THEN Strip(Tail(s))
    ELSE IF s[Len(s)] \in Whitespace THEN Strip(DropLast(s, 1))
    ELSE s

\* get_urls_from_sitemap: no file, or a file that does not parse, gives no URL;
\* otherwise the stripped text of every loc element that has text (found through
\* the namespace, or through the tag name when the namespace is another one)
get_urls_from_sitemap(file) ==
    IF ~file.found THEN <<>>
    ELSE IF \E i \in 1..Len(file.locs) : XmlText(file.locs[i]) = XmlError THEN <<>>
    ELSE LET texts == [i \in 1..Len(file.locs) |-> XmlText(file.locs[i])]
             with_text == SelectSeq(texts, LAMBDA t : t # <<>>)
         IN  [i \in 1..Len(with_text) |-> Strip(with_text[i])]

\* the characters of the names and URLs, in code point order
CodePoints ==
    <<NL, " ", "&", "-", ".", "/", "0", "1", "2", "3", "4", "5", "6", "7", "8", "9", ":", ";", "<", ">", "?">>
    \o UpperChars \o <<"_">> \o LowerChars

Ord(c) == CHOOSE k \in 1..Len(CodePoints) : CodePoints[k] = c

\* a < b for two str
StrLess(a, b) ==
    \E i \in 1..Len(b) :
        /\ \A j \in 1..(i - 1) : j <= Len(a) /\ a[j] = b[j]
        /\ i = Len(a) + 1 \/ (i <= Len(a) /\ Ord(a[i]) < Ord(b[i]))

\* sorted(list(set(urls)))
RECURSIVE SortedStrings(_)
SortedStrings(S) ==
    IF S = {} THEN <<>>
    ELSE LET least == CHOOSE x \in S : \A y \in S \ {x} : StrLess(x, y)
         IN  <<least>> \o SortedStrings(S \ {least})

\* str.replace(old, new)
RECURSIVE ReplaceAll(_, _, _)
ReplaceAll(s, old, new) ==
    IF s = <<>> THEN <<>>
    ELSE IF StartsWith(s, old) THEN new \o ReplaceAll(DropFirst(s, Len(old)), old, new)
    ELSE <<s[1]>> \o ReplaceAll(Tail(s), old, new)

Google == <<"g", "o", "o", "g", "l", "e">>

Baidu == <<"b", "a", "i", "d", "u">>

\* get_urls_from_scan: the URL that stands for one HTML file
ScanUrl(path) ==
    IF Basename(path) = IndexHtml
    THEN IF RelPath(path) = IndexHtml THEN HttpsPrefix \o HOST \o Slash
         ELSE HttpsPrefix \o HOST \o Slash \o ReplaceAll(RelPath(path), Slash \o IndexHtml, Slash)
    ELSE HttpsPrefix \o HOST \o Slash \o ReplaceAll(RelPath(path), DotHtml, <<>>)

\* get_urls_from_scan(ROOT_DIR, HOST)
get_urls_from_scan(d) ==
    SortedStrings({ScanUrl(p) : p \in {q \in DOMAIN d : EndsWith(Basename(q), DotHtml) /\ ~HasSubstring(Basename(q), Google) /\ ~HasSubstring(Basename(q), Baidu)}})

\* the JSON body of the request
Body(urls) == [host |-> HOST, key |-> KEY, urlList |-> urls]

\* what urlopen does: a response with a status (whose body decodes or not),
\* an HTTPError (whose body can be read or not), or another exception
PushOutcomes ==
    {[kind |-> "response", status |-> st, body_ok |-> b] : st \in {200, 202, 204}, b \in BOOLEAN}
    \cup {[kind |-> "HTTPError", status |-> st, body_ok |-> b] : st \in {403, 500}, b \in BOOLEAN}
    \cup {[kind |-> "URLError", status |-> 0, body_ok |-> FALSE]}

\* the outcome messages that push_to_indexnow prints after the request
Messages(o) ==
    IF o.kind = "response"
    THEN IF o.status \in {200, 202} THEN <<"success">>
         ELSE IF o.body_ok THEN <<"failed status">> ELSE <<"failed status", "exception">>
    ELSE IF o.kind = "HTTPError" THEN <<"http error">>
    ELSE <<"exception">>

\* mutant: a failed request is sent again
AfterRequest_Retries(o) == IF Messages(o) = <<"success">> THEN "done" ELSE "push"

\* push_to_indexnow returns after the one urlopen, whatever its outcome
AfterRequest(o) == "done"

\* "site_urls = get_urls_from_sitemap(SITEMAP_PATH)"
ReadSitemap ==
    /\ ipc = "start"
    /\ bpc \in {"unused", "blog", "returned", "crashed"}
    /\ site_urls' = get_urls_from_sitemap(sitemap_file)
    /\ ipc' = IF site_urls' # <<>> THEN "push" ELSE "scan"
    /\ UNCHANGED <<sitemap_file, requests, plog, fs, base_url, linkVars, resolveVars, auditVars, buildVars, recVars>>

\* "site_urls = get_urls_from_scan(ROOT_DIR, HOST)", then "if site_urls: ... else"
ScanForUrls ==
    /\ ipc = "scan"
    /\ site_urls' = get_urls_from_scan(disk)
    /\ IF site_urls' # <<>> THEN ipc' = "push" /\ plog' = plog
       ELSE ipc' = "done" /\ plog' = Append(plog, "no url found")
    /\ UNCHANGED <<sitemap_file, requests, fs, base_url, linkVars, resolveVars, auditVars, buildVars, recVars>>

\* push_to_indexnow(site_urls)
PushToIndexNow ==
    /\ ipc = "push"
    /\ IF site_urls = <<>>
       THEN ipc' = "done" /\ plog' = Append(plog, "nothing to push") /\ UNCHANGED requests
       ELSE \E o \in PushOutcomes :
                /\ requests' = Append(requests, Body(site_urls))
                /\ plog' = plog \o Messages(o)
                /\ ipc' = AfterRequest(o)
    /\ UNCHANGED <<sitemap_file, site_urls, fs, base_url, linkVars, resolveVars, auditVars, buildVars, recVars>>

\* the variables of the other operations, when a specification does not use them
PushUnused == ipc = "unused" /\ sitemap_file = NotFound /\ site_urls = <<>> /\ requests = <<>> /\ plog = <<>>

\* generate_recommendations has not returned (yet)
NotReturned == [returned |-> FALSE]

RecsUnused == rec_for = <<>> /\ rec_out = NotReturned

LinkUnused == url = <<>> /\ outs = <<>>

ResolveUnused == cur = None /\ link_href = None /\ resolved = <<>>

AuditUnused ==
    /\ site = <<>>
    /\ pc = "unused"
    /\ files = <<>>
    /\ internal_links_map = <<>>
    /\ external_links = <<>>
    /\ score = 100
    /\ issues = <<>>
    /\ top_pages = <<>>
    /\ file_i = 0
    /\ futures = <<>>
    /\ deducted = <<>>

BuildUnused ==
    /\ disk = <<>>
    /\ mtimes = <<>>
    /\ clock = 0
    /\ sitemap = <<>>
    /\ listing = <<>>
    /\ bpc = "unused"
    /\ assets = NotFound
    /\ all_posts = <<>>
    /\ file_k = 0
    /\ written = <<>>
    /\ runs = 0

(***************************************************************************)
(* The sites audited: a directory tree whose pages differ from a clean     *)
(* default page in at most MaxMods places, and sites with many dead links. *)
(***************************************************************************)
MaxMods == 2

MaxDead == 8

NotFoundHtml == <<"4", "0", "4", ".", "h", "t", "m", "l">>

AuditTree == {RootFile(IndexHtml), RootFile(About \o DotHtml), BlogFile(About \o DotHtml), RootFile(NotFoundHtml)}

Pages == {f \in AuditTree : Audited(f)}

\* the pages that carry links: the home page and the blog page
LinkingPages == {RootFile(IndexHtml), BlogFile(About \o DotHtml)}

UnogsUrl == <<"h", "t", "t", "p", "s", ":", "/", "/", "u", "n", "o", "g", "s", ".", "c", "o", "m", "/">>

PlainUrl == <<"h", "t", "t", "p", ":", "/", "/", "e", ".", "c", "o", "m">>

\* root-relative, page-relative, with '..', absolute under the base URL, two external, trusted
AuditHrefs == {Slash \o About, About \o DotHtml, <<".", ".", "/">> \o About \o DotHtml, SiteUrl \o Slash \o Blog \o Slash \o About, OtherUrl, PlainUrl, UnogsUrl}

DeadHref == <<"x">> \o DotHtml

CleanPage == [h1s |-> 1, schema |-> TRUE, breadcrumb |-> TRUE, readable |-> TRUE, canonical |-> None, og_url |-> None, anchors |-> <<>>]

BarePage == [CleanPage EXCEPT !.h1s = 0, !.schema = FALSE, !.breadcrumb = FALSE]

HeadKinds == {BarePage, [CleanPage EXCEPT !.h1s = 2], [CleanPage EXCEPT !.readable = FALSE]}

\* where index.html declares the base URL: canonical, og:url only, nowhere
BaseDeclarations == <<[canonical |-> SiteUrl \o Slash, og_url |-> None], [canonical |-> None, og_url |-> SiteUrl \o Slash], [canonical |-> None, og_url |-> None]>>

CleanSite == [f \in {g \in AuditTree : EndsWith(g, DotHtml)} |-> CleanPage]

RECURSIVE WithHeads(_, _)
WithHeads(st, heads) ==
    IF heads = <<>> THEN st
    ELSE WithHeads([st EXCEPT ![Head(heads)[1]] = Head(heads)[2]], Tail(heads))

RECURSIVE WithAnchors(_, _)
WithAnchors(st, links) ==
    IF links = <<>> THEN st
    ELSE WithAnchors([st EXCEPT ![Head(links)[1]].anchors = Append(@, Head(links)[2])], Tail(links))

WithBase(st, decl) == [st EXCEPT ![index_path].canonical = decl.canonical, ![index_path].og_url = decl.og_url]

\* the sites with h changed page heads, a anchors and base declaration b
SitesWith(h, a, b) == {WithBase(WithAnchors(WithHeads(CleanSite, heads), links), BaseDeclarations[b]) : heads \in [1..h -> Pages \X HeadKinds], links \in [1..a -> LinkingPages \X AuditHrefs]}

ModifiedSites == UNION {SitesWith(h, a, b) : <<h, a, b>> \in {m \in (0..MaxMods) \X (0..MaxMods) \X (1..3) : m[1] + m[2] + (IF m[3] = 1 THEN 0 ELSE 1) <= MaxMods}}

\* every page bare, and n dead links on the home page
DeadLinkSites == {WithBase(WithAnchors([f \in DOMAIN CleanSite |-> BarePage], [i \in 1..n |-> <<index_path, DeadHref>>]), BaseDeclarations[1]) : n \in 0..MaxDead}

Init ==
    /\ \/ fs = AuditTree /\ site \in ModifiedSites \cup DeadLinkSites
       \/ fs = AuditTree \ {index_path} /\ site = [f \in DOMAIN CleanSite \ {index_path} |-> CleanPage]
    /\ pc = "start"
    /\ files = <<>>
    /\ base_url = None
    /\ internal_links_map = <<>>
    /\ external_links = <<>>
    /\ score = 100
    /\ issues = <<>>
    /\ top_pages = <<>>
    /\ file_i = 0
    /\ futures = <<>>
    /\ deducted = <<>>
    /\ LinkUnused
    /\ ResolveUnused
    /\ BuildUnused
    /\ PushUnused
    /\ RecsUnused

Next ==
    \/ AutoConfigure
    \/ ScanFiles
    \/ AuditPage
    \/ SubmitChecks
    \/ \E i \in 1..Len(futures) : WorkerSendsHead(i)
    \/ \E i \in 1..Len(futures), response \in HeadOutcomes \cup GetOutcomes : WorkerGetsResponse(i, response)
    \/ \E i \in 1..Len(futures) : CollectResult(i)
    \/ FinishChecks
    \/ Unwind
    \/ AnalyzeEquity

Spec == Init /\ [][Next]_vars

(***************************************************************************)
(* The worker pool: a home page with more external links than the pool has *)
(* workers. Checks leave the executor's queue in submission order; the     *)
(* checks answered are the two oldest in flight.                           *)
(***************************************************************************)
MaxQueued == 1

PoolNames == <<"a", "b", "c", "d", "e", "f", "g", "h", "i", "j", "k", "l", "m", "n">>

PoolUrl(k) == OtherUrl \o Slash \o <<PoolNames[k]>>

PoolSite == [f \in {index_path} |-> [CleanPage EXCEPT !.canonical = SiteUrl \o Slash, !.anchors = [k \in 1..(max_workers + MaxQueued) |-> PoolUrl(k)]]]

InitPool ==
    /\ fs = {index_path}
    /\ site = PoolSite
    /\ pc = "start"
    /\ files = <<>>
    /\ base_url = None
    /\ internal_links_map = <<>>
    /\ external_links = <<>>
    /\ score = 100
    /\ issues = <<>>
    /\ top_pages = <<>>
    /\ file_i = 0
    /\ futures = <<>>
    /\ deducted = <<>>
    /\ LinkUnused
    /\ ResolveUnused
    /\ BuildUnused
    /\ PushUnused
    /\ RecsUnused

\* the head of the executor's work queue
OldestPending == {i \in 1..Len(futures) : futures[i].st = "pending" /\ \A j \in 1..(i - 1) : futures[j].st # "pending"}

TwoOldestRunning == {i \in Running : Cardinality({j \in Running : j < i}) <= 1}

NextPool ==
    \/ AutoConfigure
    \/ ScanFiles
    \/ AuditPage
    \/ SubmitChecks
    \/ \E i \in OldestPending : WorkerSendsHead(i)
    \/ \E i \in TwoOldestRunning : WorkerGetsResponse(i, 200)
    \/ \E i \in 1..Len(futures) : CollectResult(i)
    \/ FinishChecks
    \/ AnalyzeEquity

SpecPool == InitPool /\ [][NextPool]_vars

(***************************************************************************)
(* Inputs of clean_link: an optional scheme/anchor prefix, a body of up to *)
(* MaxBody tokens, an optional asset extension in either letter case and   *)
(* an optional trailing fragment or query.                                 *)
(***************************************************************************)
MaxBody == 2

\* every concatenation of at most n tokens
Concats(tokens, n) == {Flatten(t) : t \in UNION {[1..k -> tokens] : k \in 0..n}}

Upper(s) == [i \in 1..Len(s) |-> IF \E k \in 1..Len(LowerChars) : LowerChars[k] = s[i] THEN UpperChars[CHOOSE k \in 1..Len(LowerChars) : LowerChars[k] = s[i]] ELSE s[i]]

LinkPrefixes == SkipPrefixes \cup {<<>>, <<"/">>}

LinkTokens == {<<"a">>, DotHtml, <<".", "H", "t", "m">>, <<"#">>, <<"?">>, <<NL>>}

LinkExts == {<<>>} \cup preserve_exts \cup {Upper(<<".", "p", "n", "g">>), <<".", "J", "s">>, <<".", "j", "p", "E", "G">>}

LinkTrailers == {<<>>, <<"#", "a">>, <<"?", "a">>, <<"?", "a", "#", "a">>}

LinkInputs == {p \o b \o e \o t : p \in LinkPrefixes, b \in Concats(LinkTokens, MaxBody), e \in LinkExts, t \in LinkTrailers}

InitLink ==
    /\ url \in LinkInputs
    /\ outs = <<>>
    /\ fs = {}
    /\ base_url = None
    /\ ResolveUnused
    /\ AuditUnused
    /\ BuildUnused
    /\ PushUnused
    /\ RecsUnused

\* the builder cleans a link of a page (process_links line 106/126)
ApplyCleanLink ==
    /\ outs = <<>>
    /\ outs' = <<clean_link(url)>>
    /\ UNCHANGED <<url, fs, base_url, resolveVars, auditVars, buildVars, pushVars, recVars>>

\* the builder is run again on the page it wrote: the cleaned link is cleaned again
ReapplyCleanLink ==
    /\ Len(outs) = 1
    /\ outs' = Append(outs, clean_link(outs[1]))
    /\ UNCHANGED <<url, fs, base_url, resolveVars, auditVars, buildVars, pushVars, recVars>>

NextLink == ApplyCleanLink \/ ReapplyCleanLink

SpecLink == InitLink /\ [][NextLink]_vars

(***************************************************************************)
(* Inputs of resolve_local_path: three directory trees, two pages, and     *)
(* hrefs made of an optional absolute prefix and up to MaxHref tokens.     *)
(***************************************************************************)
MaxHref == 3

CommonFiles == {RootFile(IndexHtml), RootFile(About \o DotHtml), BlogFile(IndexHtml), BlogFile(About \o DotHtml)}

\* about.html beside about/index.html; about.html alone; about.html beside a file named about
Trees == {CommonFiles \cup {Join(Join(root_dir, About), IndexHtml)}, CommonFiles, CommonFiles \cup {RootFile(About)}}

HrefPrefixes == {<<>>, SiteUrl, OtherUrl}

HrefTokens == {Slash, About, DotHtml, <<".", ".">>, <<"#">>, <<"?">>}

HrefInputs == {p \o b : p \in HrefPrefixes, b \in Concats(HrefTokens, MaxHref)}

InitResolve ==
    /\ fs \in Trees
    /\ base_url \in {None, SiteUrl}
    /\ cur \in {RootFile(IndexHtml), BlogFile(About \o DotHtml)}
    /\ link_href \in HrefInputs
    /\ resolved = <<>>
    /\ LinkUnused
    /\ AuditUnused
    /\ BuildUnused
    /\ PushUnused
    /\ RecsUnused

\* audit_page asks where a link of the page leads (audit.py line 242)
ResolveLink ==
    /\ resolved = <<>>
    /\ resolved' = <<resolve_local_path(fs, base_url, cur, link_href)>>
    /\ UNCHANGED <<fs, base_url, cur, link_href, linkVars, auditVars, buildVars, pushVars, recVars>>

NextResolve == ResolveLink

SpecResolve == InitResolve /\ [][NextResolve]_vars

(***************************************************************************)
(* The sites built: a home page, a blog index, two posts and a privacy     *)
(* page that differ from a default site by at most MaxEdits edits, built    *)
(* up to MaxRuns times in a row.                                           *)
(***************************************************************************)
MaxEdits == 1

PostA == <<"a", ".", "h", "t", "m", "l">>

PostB == <<"b", ".", "h", "t", "m", "l">>

NotesTxt == <<"n", ".", "t", "x", "t">>

ShareUrl == OtherUrl \o <<"/", "?", "u", "=">> \o SiteDomain

Faq == <<"#", "f", "a", "q">>

Stylesheet == [Tag("link", OtherUrl \o <<"/", "x", ".", "c", "s", "s">>, RelList(<<"stylesheet">>)) EXCEPT !.name = "link"]

HeadOf(title, tags) == [title |-> title, desc |-> IF title = "" THEN "" ELSE "d-" \o title, keywords |-> IF title = "" THEN "" ELSE "k-" \o title, tags |-> tags]

SiteNav == Nav("main-nav", "", FALSE, "before", <<Tag("a", <<"#">>, NotFound), Tag("a", Faq, NotFound), Tag("a", <<"a", "b", "o", "u", "t">>, NotFound)>>)

SiteFooter == [links |-> <<Tag("a", <<"/", "#">>, NotFound), Tag("a", Faq, NotFound), Tag("a", OtherUrl, NotFound)>>]

Crumbs == Nav("", "", TRUE, "main", <<Tag("a", Slash, NotFound)>>)

DefaultPage ==
    [readable |-> TRUE, head |-> HeadOf("t", <<Stylesheet>>), body |-> TRUE, main |-> TRUE,
     navs |-> <<SiteNav>>, footer |-> SiteFooter, header |-> "plain", article |-> <<Block("content", <<>>)>>,
     links |-> <<>>, style |-> "old", cards |-> NoBlocks]

HomePage == [DefaultPage EXCEPT !.head = HeadOf("t", <<Tag("link", <<"f", ".", "i", "c", "o">>, RelList(<<"icon">>)), Stylesheet>>), !.article = NoBlocks, !.cards = <<>>]

BlogIndexPage == [DefaultPage EXCEPT !.article = NoBlocks, !.cards = <<>>]

\* a head as an earlier build or another generator left it
BuiltHead ==
    HeadOf("old", <<[Canonical(SiteUrl \o <<"/", "o", "l", "d">>) EXCEPT !.rel = RelList(<<"canonical">>)],
                  [Alternate(SiteUrl \o <<"/", "o", "l", "d">>, "en") EXCEPT !.rel = RelList(<<"alternate">>)],
                  Tag("link", <<"/", "o", "l", "d", ".", "i", "c", "o">>, RelList(<<"shortcut", "icon">>)),
                  Stylesheet,
                  JsonLd(SiteUrl \o <<"/", "o", "l", "d">>)>>)

DefaultSite ==
    [disk |-> (INDEX_FILE :> HomePage) @@ (BLOG_INDEX_FILE :> BlogIndexPage) @@ (Join(BLOG_DIR, PostA) :> DefaultPage)
              @@ (Join(BLOG_DIR, PostB) :> DefaultPage) @@ (Join(root_dir, PrivacyHtml) :> [DefaultPage EXCEPT !.article = NoBlocks]),
     listing |-> <<IndexHtml, PostA, PostB>>,
     mtimes |-> (INDEX_FILE :> 0) @@ (BLOG_INDEX_FILE :> 0) @@ (Join(BLOG_DIR, PostA) :> 1) @@ (Join(BLOG_DIR, PostB) :> 2) @@ (Join(root_dir, PrivacyHtml) :> 0)]

\* the links a post may hold besides its nav, footer and article
LinkVariants ==
    <<Tag("a", OtherUrl, NotFound),
      Tag("a", OtherUrl, RelList(<<"nofollow">>)),
      Tag("a", OtherUrl, RelList(<<"external">>)),
      Tag("a", OtherUrl, RelStr("noopener")),
      Tag("a", HttpPrefix \o <<"e", ".", "c", "o", "m">>, NotFound),
      Tag("a", SiteUrl \o <<"/", "x">>, NotFound),
      Tag("a", ShareUrl, NotFound),
      Tag("a", PostB, NotFound),
      Tag("a", <<".", ".", "/">> \o PrivacyHtml, NotFound),
      Tag("a", <<"/", "f", "a", "q">>, NotFound),
      Tag("a", Slash \o IndexHtml \o Faq, NotFound),
      Tag("a", Faq, NotFound),
      Tag("a", None, NotFound),
      [Tag("img", None, NotFound) EXCEPT !.src = <<"p", ".", "h", "t", "m", "l">>],
      [Tag("img", None, NotFound) EXCEPT !.src = <<"p", ".", "p", "n", "g">>]>>

\* an edit is a list of changes; a change sets one field of one file, adds or
\* removes a file, or changes the listing or the modification times
Set(path, field, value) == <<path, field, value>>

One(change) == <<change>>

PageEdits(path) ==
    <<One(Set(path, "readable", FALSE)),
      One(Set(path, "head", NotFound)),
      One(Set(path, "head", HeadOf("", <<>>))),
      One(Set(path, "head", BuiltHead)),
      One(Set(path, "body", FALSE)),
      One(Set(path, "main", FALSE)),
      One(Set(path, "navs", <<>>)),
      One(Set(path, "navs", <<Crumbs>>)),
      One(Set(path, "navs", <<SiteNav, Crumbs>>)),
      One(Set(path, "footer", NotFound)),
      One(Set(path, "header", "none")),
      One(Set(path, "article", NoBlocks)),
      One(Set(path, "article", <<Block("content", <<>>), Block("rec", <<Card(Post(PostB, 0))>>)>>)),
      One(Set(path, "article", <<Block("legacy16", <<>>), Block("content", <<Tag("a", OtherUrl, NotFound)>>), Block("plink", <<Tag("a", PostB, NotFound)>>)>>)),
      One(Set(path, "article", <<Block("h3div", <<>>), Block("rec", <<>>), Block("legacy12", <<>>), Block("rec", <<>>)>>))>>
    \o [i \in 1..Len(LinkVariants) |-> One(Set(path, "links", <<LinkVariants[i]>>))]
    \o <<<<Set(path, "navs", <<>>), Set(path, "main", FALSE)>>>>

Edits ==
    PageEdits(Join(BLOG_DIR, PostA))
    \o <<One(Set(INDEX_FILE, "remove", None)),
         One(Set(INDEX_FILE, "readable", FALSE)),
         One(Set(INDEX_FILE, "navs", <<>>)),
         One(Set(INDEX_FILE, "navs", <<[SiteNav EXCEPT !.id = "", !.links = <<[Tag("a", Faq, NotFound) EXCEPT !.onclick = TRUE]>>]>>)),
         One(Set(INDEX_FILE, "footer", NotFound)),
         One(Set(INDEX_FILE, "cards", NoBlocks)),
         One(Set(BLOG_INDEX_FILE, "remove", None)),
         One(Set(BLOG_INDEX_FILE, "readable", FALSE)),
         One(Set(BLOG_INDEX_FILE, "cards", NoBlocks)),
         One(Set(Join(BLOG_DIR, PostB), "remove", None)),
         One(Set(Join(BLOG_DIR, PostB), "navs", <<>>)),
         One(Set(Join(BLOG_DIR, PostB), "footer", NotFound)),
         One(Set(Join(BLOG_DIR, PostB), "head", NotFound)),
         One(Set(Join(root_dir, PrivacyHtml), "remove", None)),
         One(Set(Join(root_dir, PrivacyHtml), "navs", <<>>)),
         One(Set(Join(root_dir, PrivacyHtml), "footer", NotFound)),
         One(Set(Join(root_dir, DisclaimerHtml), "add", [DefaultPage EXCEPT !.article = NoBlocks])),
         One(Set(None, "listing", <<PostB, NotesTxt, PostA, IndexHtml>>)),
         One(Set(None, "mtimes", 1))>>

ApplyEdit(s, e) ==
    IF e[2] = "listing" THEN [s EXCEPT !.listing = SelectSeq(e[3], LAMBDA f : f = NotesTxt \/ Join(BLOG_DIR, f) \in DOMAIN s.disk)]
    ELSE IF e[2] = "mtimes" THEN [s EXCEPT !.mtimes = [p \in DOMAIN s.mtimes |-> IF s.mtimes[p] > e[3] THEN e[3] ELSE s.mtimes[p]]]
    ELSE IF e[2] = "add" THEN [s EXCEPT !.disk = (e[1] :> e[3]) @@ s.disk, !.mtimes = (e[1] :> 0) @@ s.mtimes]
    ELSE IF e[1] \notin DOMAIN s.disk THEN s
    ELSE IF e[2] = "remove" THEN [s EXCEPT !.disk = [p \in DOMAIN s.disk \ {e[1]} |-> s.disk[p]],
                                           !.mtimes = [p \in DOMAIN s.mtimes \ {e[1]} |-> s.mtimes[p]],
                                           !.listing = SelectSeq(s.listing, LAMBDA f : Join(BLOG_DIR, f) # e[1])]
    ELSE [s EXCEPT !.disk[e[1]][e[2]] = e[3]]

RECURSIVE ApplyEdits(_, _)
ApplyEdits(s, es) == IF es = <<>> THEN s ELSE ApplyEdits(ApplyEdit(s, Head(es)), Tail(es))

\* the choices of at most MaxEdits edits, in the order of Edits
EditChoices == UNION {{c \in [1..n -> 1..Len(Edits)] : \A i \in 1..(n - 1) : c[i] < c[i + 1]} : n \in 0..MaxEdits}

RECURSIVE Changes(_)
Changes(c) == IF c = <<>> THEN <<>> ELSE Edits[Head(c)] \o Changes(Tail(c))

BuildSites == {ApplyEdits(DefaultSite, Changes(c)) : c \in EditChoices}

InitBuild ==
    /\ \E s \in BuildSites :
        /\ disk = s.disk
        /\ mtimes = s.mtimes
        /\ listing = s.listing
    /\ clock = 3
    /\ sitemap = <<>>
    /\ bpc = "start"
    /\ assets = NotFound
    /\ all_posts = <<>>
    /\ file_k = 0
    /\ written = <<>>
    /\ runs = 0
    /\ fs = {}
    /\ base_url = None
    /\ LinkUnused
    /\ ResolveUnused
    /\ AuditUnused
    /\ PushUnused
    /\ RecsUnused

NextBuild ==
    \/ MainStart
    \/ ExtractAssets
    \/ GetBlogPosts
    \/ UpdateIndexHtml
    \/ UpdateBlogIndexHtml
    \/ GenerateSitemap
    \/ ProcessBlogFile
    \/ BlogFilesDone
    \/ ProcessRootFile
    \/ BuildComplete
    \/ RunAgain

SpecBuild == InitBuild /\ [][NextBuild]_vars

(***************************************************************************)
(* Both tools on one directory, the auditor first and then the builder: the *)
(* default site, with or without its index.html; the home page has one     *)
(* external link.                                                          *)
(***************************************************************************)
ToolSites == {DefaultSite, ApplyEdit(DefaultSite, Set(INDEX_FILE, "remove", None))}

AuditView(d) == [f \in DOMAIN d |-> IF f = INDEX_FILE THEN [CleanPage EXCEPT !.canonical = SiteUrl \o Slash, !.anchors = <<OtherUrl>>] ELSE CleanPage]

InitTools ==
    /\ \E s \in ToolSites :
        /\ disk = s.disk
        /\ mtimes = s.mtimes
        /\ listing = s.listing
        /\ fs = DOMAIN s.disk
        /\ site = AuditView(s.disk)
    /\ clock = 3
    /\ sitemap = <<>>
    /\ bpc = "start"
    /\ assets = NotFound
    /\ all_posts = <<>>
    /\ file_k = 0
    /\ written = <<>>
    /\ runs = 0
    /\ pc = "start"
    /\ files = <<>>
    /\ base_url = None
    /\ internal_links_map = <<>>
    /\ external_links = <<>>
    /\ score = 100
    /\ issues = <<>>
    /\ top_pages = <<>>
    /\ file_i = 0
    /\ futures = <<>>
    /\ deducted = <<>>
    /\ LinkUnused
    /\ ResolveUnused
    /\ PushUnused
    /\ RecsUnused

\* the auditor's run is over
AuditorOver == pc \in {"aborted", "crashed", "done"}

NextTools == Next \/ (AuditorOver /\ NextBuild)

SpecTools == InitTools /\ [][NextTools]_vars

(***************************************************************************)
(* Claims about the audit run (checked under Spec)                         *)
(***************************************************************************)
RECURSIVE Sum(_)
Sum(ns) == IF ns = <<>> THEN 0 ELSE Head(ns) + Sum(Tail(ns))

\* the positions of the issues of a kind about a path
IssuesAbout(kind, path) == {i \in 1..Len(issues) : issues[i].kind = kind /\ issues[i].path = path}

\* the anchors that audit_page hands to resolve_local_path: <<page, position>>
ResolvedAnchors == {pa \in UNION {{<<f, n>> : n \in 1..Len(site[f].anchors)} : f \in {files[i] : i \in 1..Len(files)}} :
                        /\ site[pa[1]].readable
                        /\ ~Ignored(site[pa[1]].anchors[pa[2]])
                        /\ ~IsExternal(site[pa[1]].anchors[pa[2]])}

\* the anchors whose href resolve_local_path resolves to the file p
InboundAnchors(p) == {pa \in ResolvedAnchors :
                        LET target == resolve_local_path(fs, base_url, pa[1], site[pa[1]].anchors[pa[2]])
                        IN  target # None /\ Lookup(fs, <<>>, Segments(target)) = Lookup(fs, <<>>, Segments(p))}

\* C2: after the run, the tally that analyze_equity reads for a discovered page
\* equals the number of anchor occurrences that resolve_local_path resolves to
\* that page's file, however the href is written.
C2_TallyCountsResolvedAnchors == pc = "done" => \A i \in 1..Len(files) : MapGet(internal_links_map, files[i]) = Cardinality(InboundAnchors(files[i]))

\* C3: analyze_equity flags as orphan exactly the discovered pages other than
\* the root index.html whose tally is zero, each once and with a deduction of
\* 5; the root index.html is never flagged.
C3_OrphansAreUnlinkedPages ==
    /\ IssuesAbout("Orphan Page", IndexHtml) = {}
    /\ \A i \in 1..Len(issues) : issues[i].kind = "Orphan Page" => (pc = "done" /\ deducted[i] = 5 /\ \E k \in 1..Len(files) : issues[i].path = RelPath(files[k]))
    /\ pc = "done" => \A k \in 1..Len(files) :
           Cardinality(IssuesAbout("Orphan Page", RelPath(files[k]))) = IF files[k] # index_path /\ MapGet(internal_links_map, files[k]) = 0 THEN 1 ELSE 0

\* the run ended with the home page unlinked and not flagged, one page flagged
\* and one page linked
C3_Witness ==
    /\ pc = "done"
    /\ MapGet(internal_links_map, index_path) = 0
    /\ IssuesAbout("Orphan Page", About \o DotHtml) # {}
    /\ MapGet(internal_links_map, BlogFile(About \o DotHtml)) > 0

\* C7: in every state of an audit run the score is at least 0 and at most 100.
C7_ScoreWithinBounds == score >= 0 /\ score <= 100

\* more than 100 points were deducted and the score stopped at 0
C7_Witness == score = 0 /\ Sum(deducted) > 100 /\ pc = "done"

\* the deductions the claim lists, by kind of issue
C8_Listed == [k \in {"Dead Link", "Broken External Link", "Missing H1 tag", "Orphan Page", "Missing Schema", "Internal link uses absolute URL", "Relative path used", ".html suffix used"} |->
                 CASE k = "Dead Link" -> 10
                   [] k \in {"Broken External Link", "Missing H1 tag", "Orphan Page"} -> 5
                   [] OTHER -> 2]

C8_ScoreIsHundredMinusDeductions ==
    /\ Len(deducted) = Len(issues)
    /\ score = IF 100 - Sum(deducted) > 0 THEN 100 - Sum(deducted) ELSE 0
    /\ \A i \in 1..Len(issues) : issues[i].kind \in DOMAIN C8_Listed => deducted[i] = C8_Listed[issues[i].kind]
    /\ \A i, j \in 1..Len(issues) : issues[i].kind = issues[j].kind => deducted[i] = deducted[j]

\* C8: the score starts at 100 and never increases; after any sequence of
\* add_issue calls it is max(0, 100 - the sum of the deductions of the issues
\* recorded so far), and each kind of issue always carries the same deduction
\* (dead link 10; broken external link, missing H1, orphan 5; missing schema,
\* absolute-internal, relative and .html-suffix link 2).
C8_ScoreFollowsDeductions == [](C8_ScoreIsHundredMinusDeductions) /\ [][score' <= score /\ Len(issues') >= Len(issues)]_vars

\* a run ended with a dead link, a broken external link and an orphan recorded
C8_Witness ==
    /\ pc = "done"
    /\ \E i, j, k \in 1..Len(issues) : issues[i].kind = "Dead Link" /\ issues[j].kind = "Broken External Link" /\ issues[k].kind = "Orphan Page"
    /\ score = 100 - Sum(deducted)

\* the anchors of the audited pages that reference the external URL u
ReferencesTo(u) == {pa \in UNION {{<<f, n>> : n \in 1..Len(site[f].anchors)} : f \in {files[i] : i \in 1..Len(files)}} :
                        site[pa[1]].readable /\ site[pa[1]].anchors[pa[2]] = u /\ IsExternal(u)}

ChecksOf(u) == {i \in 1..Len(futures) : futures[i].url = u}

\* C9: a broken external URL produces exactly one 'Broken External Link' issue
\* and one deduction of 5 per run, however many anchors reference it: the URL
\* is checked once, never reported twice, and when the check stage has
\* returned it is reported once if its check found it broken.
C9_BrokenUrlReportedOnce ==
    \A u \in {futures[i].url : i \in 1..Len(futures)} \cup {issues[i].path : i \in {n \in 1..Len(issues) : issues[n].kind = "Broken External Link"}} :
        /\ Cardinality(ChecksOf(u)) = 1
        /\ Cardinality(IssuesAbout("Broken External Link", u)) <= 1
        /\ \A i \in IssuesAbout("Broken External Link", u) : deducted[i] = 5
        /\ pc \in {"equity", "done"} => Cardinality(IssuesAbout("Broken External Link", u)) = IF \E i \in ChecksOf(u) : futures[i].result # <<>> THEN 1 ELSE 0

\* a URL referenced from two pages was found broken and reported once
C9_Witness ==
    /\ pc = "done"
    /\ \E u \in {futures[i].url : i \in 1..Len(futures)} :
           /\ \E pa, pb \in ReferencesTo(u) : pa[1] # pb[1]
           /\ Cardinality(IssuesAbout("Broken External Link", u)) = 1

\* C10: check_url sends HEAD first and sends GET if and only if the HEAD status
\* is 403 or 405; it reports the URL broken if and only if the last response
\* status is >= 400 or a request failed with a connection error; no URL gets
\* more than these two requests.
C10_HeadThenGetFallback ==
    \A i \in 1..Len(futures) :
        LET f == futures[i]
        IN  /\ f.sent \in {<<>>, <<"HEAD">>, <<"HEAD", "GET">>}
            /\ Len(f.responses) <= Len(f.sent)
            /\ (f.st = "pending") = (f.sent = <<>>)
            /\ Len(f.responses) >= 1 => ((Len(f.sent) = 2) = (f.responses[1] \in {403, 405}))
            /\ Len(f.responses) = 0 => Len(f.sent) <= 1
            /\ f.st = "done" =>
                   /\ Len(f.responses) = Len(f.sent)
                   /\ (f.result # <<>>) = (f.responses[Len(f.responses)] >= 400 \/ f.responses[Len(f.responses)] = RequestException)
                   /\ f.result # <<>> => f.result = <<f.responses[Len(f.responses)]>>
            /\ (f.collected /\ ~f.raised) => (IssuesAbout("Broken External Link", f.url) # {}) = (f.result # <<>>)

\* a HEAD answered 405 was followed by a GET answered 200, and the URL was not reported
C10_Witness == \E i \in 1..Len(futures) : futures[i].sent = <<"HEAD", "GET">> /\ futures[i].responses = <<405, 200>> /\ futures[i].collected /\ IssuesAbout("Broken External Link", futures[i].url) = {}

\* the external URLs that audit_page collects from the audited pages
CollectedUrls == {u \in AuditHrefs : ReferencesTo(u) # {}}

\* C11: each distinct collected external URL that is not on the trusted
\* allow-list is health-checked exactly once per run; a URL on the allow-list
\* is never requested and never reported as broken.
C11_UntrustedCheckedOnceTrustedNever ==
    /\ \A i \in 1..Len(futures) : futures[i].url \notin trusted_external_links
    /\ \A u \in trusted_external_links : IssuesAbout("Broken External Link", u) = {}
    /\ pc \in {"collect", "unwind", "equity", "done", "crashed"} =>
           \A u \in CollectedUrls : Cardinality(ChecksOf(u)) = IF u \in trusted_external_links THEN 0 ELSE 1
    /\ pc \in {"equity", "done", "crashed"} =>
           \A i \in 1..Len(futures) : futures[i].st = "done" /\ Cardinality({n \in 1..Len(futures[i].sent) : futures[i].sent[n] = "HEAD"}) = 1

\* a run ended in which a trusted and an untrusted URL were collected and only
\* the untrusted one was requested
C11_Witness ==
    /\ pc = "done"
    /\ UnogsUrl \in CollectedUrls
    /\ OtherUrl \in CollectedUrls
    /\ Len(futures) = 1
    /\ futures[1].url = OtherUrl
    /\ futures[1].sent # <<>>

\* the position of a page in the order in which scan_files discovered it
DiscoveryIndex(p) == CHOOSE k \in 1..Len(files) : files[k] = p

\* C12: after analyze_equity, top_pages holds at most 10 (page, count) entries
\* in non-increasing order of inbound count, and pages with equal counts
\* appear in the order in which scan_files discovered them.
C12_TopPagesTiesInDiscoveryOrder ==
    pc = "done" =>
        /\ Len(top_pages) <= 10
        /\ \A i, j \in 1..Len(top_pages) : i < j => top_pages[i].count >= top_pages[j].count
        /\ \A i, j \in 1..Len(top_pages) :
               (/\ i < j
                /\ top_pages[i].count = top_pages[j].count
                /\ \E k \in 1..Len(files) : files[k] = top_pages[i].key
                /\ \E k \in 1..Len(files) : files[k] = top_pages[j].key)
               => DiscoveryIndex(top_pages[i].key) < DiscoveryIndex(top_pages[j].key)

\* the checks whose last response makes the URL broken
BrokenChecks == {i \in 1..Len(futures) : futures[i].responses # <<>> /\ futures[i].st = "done" /\ (futures[i].responses[Len(futures[i].responses)] >= 400 \/ futures[i].responses[Len(futures[i].responses)] = RequestException)}

\* the deductions of the issues recorded before the external-link stage and after it
OtherDeductions == Sum([i \in 1..Len(issues) |-> IF issues[i].kind = "Broken External Link" THEN 0 ELSE deducted[i]])

\* when check_external_links has returned, the score and the set of broken-link
\* issues are determined by the responses alone, whatever the completion order
C13_OutcomeIndependentOfOrder ==
    pc = "equity" =>
        /\ {issues[i] : i \in {n \in 1..Len(issues) : issues[n].kind = "Broken External Link"}}
               = {[type |-> "ERROR", kind |-> "Broken External Link", path |-> futures[i].url, detail |-> <<futures[i].responses[Len(futures[i].responses)]>>] : i \in BrokenChecks}
        /\ score = IF 100 - OtherDeductions - 5 * Cardinality(BrokenChecks) > 0 THEN 100 - OtherDeductions - 5 * Cardinality(BrokenChecks) ELSE 0

\* a step of a worker thread: a check starts, sends a request or ends
C13_WorkerStep == Len(futures') = Len(futures) /\ \E i \in 1..Len(futures) : futures'[i].st # futures[i].st \/ futures'[i].sent # futures[i].sent \/ futures'[i].responses # futures[i].responses

\* during the stage the score and the issues change only when the submitting
\* thread takes a finished check out of as_completed
C13_WritesBySubmitter ==
    /\ C13_WorkerStep => (score' = score /\ issues' = issues /\ deducted' = deducted)
    /\ (pc = "collect" /\ (score' # score \/ issues' # issues)) => \E i \in 1..Len(futures) : futures[i].st = "done" /\ ~futures[i].collected /\ futures'[i].collected

\* C13: in check_external_links, under every interleaving of the worker
\* threads, the score and the issue list are written only by the submitting
\* thread, and the final score and the set of recorded broken-link issues are
\* the same for every completion order of the checks.
C13_ChecksDoNotRace == [](C13_OutcomeIndependentOfOrder) /\ [][C13_WritesBySubmitter]_vars

\* the stage returned after two checks finished in the order opposite to their
\* submission, one of them broken
C13_Witness ==
    /\ pc = "equity"
    /\ Len(futures) = 2
    /\ futures[1].order = 2
    /\ futures[2].order = 1
    /\ Cardinality(BrokenChecks) = 1
    /\ score = 95

(***************************************************************************)
(* Claims about the worker pool (checked under SpecPool)                    *)
(***************************************************************************)
\* C14: during the external-link-check stage at most 10 URL checks are in
\* progress at any time, and the stage returns (and equity analysis starts)
\* only after every submitted check has completed.
C14_AtMostTenChecksInProgress ==
    /\ Cardinality(Running) <= 10
    /\ pc \in {"equity", "done"} => \A i \in 1..Len(futures) : futures[i].st = "done" /\ futures[i].collected
    /\ pc \in {"collect", "equity", "done"} => Len(futures) = Len(site[index_path].anchors)

\* ten checks are in progress and a submitted check waits for a free worker
C14_Witness == Cardinality(Running) = 10 /\ \E i \in 1..Len(futures) : futures[i].st = "pending"

(***************************************************************************)
(* Claims about resolve_local_path (checked under SpecResolve)             *)
(***************************************************************************)

\* the href up to its first '#' or '?'
C1_Stripped(h) == IF \E i \in 1..Len(h) : h[i] \in {"#", "?"} THEN SubSeq(h, 1, (CHOOSE i \in 1..Len(h) : h[i] \in {"#", "?"} /\ \A j \in 1..(i - 1) : h[j] \notin {"#", "?"}) - 1) ELSE h

\* an href under the base URL, written root-relative
C1_Mapped(h) ==
    IF base_url \notin {None, <<>>} /\ Len(h) >= Len(base_url) /\ SubSeq(h, 1, Len(base_url)) = base_url
    THEN IF Len(h) > Len(base_url) /\ h[Len(base_url) + 1] = "/" THEN SubSeq(h, Len(base_url) + 1, Len(h)) ELSE <<"/">> \o SubSeq(h, Len(base_url) + 1, Len(h))
    ELSE h

C1_Href == C1_Mapped(C1_Stripped(link_href))

C1_External(h) == StartsWith(h, <<"h", "t", "t", "p", ":", "/", "/">>) \/ StartsWith(h, <<"h", "t", "t", "p", "s", ":", "/", "/">>)

\* the directory searched and the path searched for in it
C1_Dir == IF C1_Href # <<>> /\ C1_Href[1] = "/" THEN root_dir ELSE SubSeq(cur, 1, LastSlash(cur) - 1)

C1_Path == IF C1_Href # <<>> /\ C1_Href[1] = "/" THEN LStripSlash(C1_Href) ELSE C1_Href

C1_Candidates == <<C1_Dir \o <<"/">> \o C1_Path, C1_Dir \o <<"/">> \o C1_Path \o <<"/">> \o IndexHtml, C1_Dir \o <<"/">> \o C1_Path \o <<".", "h", "t", "m", "l">>>>

\* the file a path leads to (Missing when it leads to no file)
C1_FileAt(p) == Lookup(fs, <<>>, Segments(p))

\* C1: for an href that, stripped of fragment and query and mapped from the base
\* URL, is non-empty and not external, resolve_local_path returns the first
\* existing file among the exact path, path/index.html and path.html (searched
\* from the site root for a root-relative href, from the page's directory
\* otherwise), and None when none of the three exists.
C1_OrderedFallback ==
    (resolved # <<>> /\ C1_Stripped(link_href) # <<>> /\ ~C1_External(C1_Href)) =>
        IF \E k \in 1..3 : C1_FileAt(C1_Candidates[k]) # Missing
        THEN LET k == CHOOSE n \in 1..3 : C1_FileAt(C1_Candidates[n]) # Missing /\ \A j \in 1..(n - 1) : C1_FileAt(C1_Candidates[j]) = Missing
             IN  resolved[1] # None /\ C1_FileAt(resolved[1]) = C1_FileAt(C1_Candidates[k])
        ELSE resolved[1] = None

\* /about was resolved on a site that has both about/index.html and about.html:
\* the second rule won over the third
C1_Witness ==
    /\ resolved # <<>>
    /\ link_href = Slash \o About
    /\ RootFile(About \o DotHtml) \in fs
    /\ resolved[1] = Join(Join(root_dir, About), IndexHtml)

(***************************************************************************)
(* Claims about clean_link (checked under SpecLink)                        *)
(***************************************************************************)

\* C4: clean_link is idempotent: cleaning a cleaned link returns it unchanged,
\* clean_link(clean_link(u)) = clean_link(u) for every link string u.
C4_CleanLinkIdempotent == Len(outs) = 2 => outs[2] = outs[1]

\* the part of a link before its first '#', or before its first '?' when it has no '#'
PathPart(u) ==
    IF \E i \in 1..Len(u) : u[i] = "#" THEN SubSeq(u, 1, (CHOOSE i \in 1..Len(u) : u[i] = "#" /\ \A j \in 1..(i - 1) : u[j] # "#") - 1)
    ELSE IF \E i \in 1..Len(u) : u[i] = "?" THEN SubSeq(u, 1, (CHOOSE i \in 1..Len(u) : u[i] = "?" /\ \A j \in 1..(i - 1) : u[j] # "?") - 1)
    ELSE u

EndsInPreservedExt(s) == \E ext \in preserve_exts : EndsWith(Lower(s), ext)

\* C5 as stated: every link string that ends in a preserved asset extension
\* (compared case-insensitively) is returned unchanged by clean_link.
C5_LinkEndingInAssetExtUnchanged == (Len(outs) >= 1 /\ EndsInPreservedExt(url)) => outs[1] = url

\* C5 amended: every link whose path part (the text before the first '#', or
\* before the first '?' when there is no '#') ends in a preserved asset
\* extension, compared case-insensitively, is returned unchanged by clean_link.
C5_PathEndingInAssetExtUnchanged == (Len(outs) >= 1 /\ EndsInPreservedExt(PathPart(url))) => outs[1] = url

\* an upper-case asset path followed by a fragment has been cleaned and kept whole
C5_Witness == Len(outs) >= 1 /\ url = <<"a", ".", "P", "N", "G", "#", "a">> /\ outs[1] = url

C6Prefixes == {<<"h", "t", "t", "p", ":">>, <<"h", "t", "t", "p", "s", ":">>, <<"#">>, <<"d", "a", "t", "a", ":">>, <<"m", "a", "i", "l", "t", "o", ":">>, <<"t", "e", "l", ":">>}

\* C6: a link that is empty or starts with 'http:', 'https:', '#', 'data:',
\* 'mailto:' or 'tel:' is returned unchanged by clean_link, also when it ends
\* in .html.
C6_SkippedLinkUnchanged == (Len(outs) >= 1 /\ (url = <<>> \/ \E p \in C6Prefixes : StartsWith(url, p))) => outs[1] = url

\* a mailto: link that ends in .html has been cleaned and kept its .html
C6_Witness == Len(outs) >= 1 /\ url = <<"m", "a", "i", "l", "t", "o", ":", "a", ".", "h", "t", "m", "l">> /\ outs[1] = url

(***************************************************************************)
(* The builder up to the sitemap, then the index-ping utility              *)
(***************************************************************************)
QandA == <<"q", "&", "a", ".", "h", "t", "m", "l">>

GoogleHtml == <<"g", "o", "o", "g", "l", "e", "1", ".", "h", "t", "m", "l">>

PushNames == {PostA, PostB, QandA}

PushRootNames == {PrivacyHtml, DisclaimerHtml, GoogleHtml}

\* a site with the posts ns and the root pages rs; the posts' modification
\* times rise or fall along the directory listing
PushSite(ns, rs, with_index, rising) ==
    LET names == SortedStrings(ns)
        paths == {Join(BLOG_DIR, n) : n \in ns} \cup {Join(root_dir, r) : r \in rs}
                 \cup (IF with_index THEN {INDEX_FILE, BLOG_INDEX_FILE} ELSE {})
        rank(p) == IF \E i \in 1..Len(names) : Join(BLOG_DIR, names[i]) = p
                   THEN LET i == CHOOSE k \in 1..Len(names) : Join(BLOG_DIR, names[k]) = p
                        IN  IF rising THEN i ELSE Len(names) + 1 - i
                   ELSE 0
    IN  [disk |-> [p \in paths |-> DefaultPage], listing |-> names, mtimes |-> [p \in paths |-> rank(p)]]

PushSites == {PushSite(ns, rs, ix, up) : ns \in SUBSET PushNames, rs \in SUBSET PushRootNames, ix \in BOOLEAN, up \in BOOLEAN}

\* sitemap.xml as an earlier run or another tool left it: none, one without the
\* Sitemap namespace, an empty one
PriorSitemaps ==
    {NotFound,
     [found |-> TRUE, xmlns |-> "", locs |-> <<SiteUrl \o Slash, <<NL, " ">> \o SiteUrl \o <<"/", "x", NL>>, <<>>>>],
     SitemapWritten(<<>>)}

InitPush ==
    /\ \E s \in PushSites :
        /\ disk = s.disk
        /\ mtimes = s.mtimes
        /\ listing = s.listing
    /\ clock = 4
    /\ sitemap = <<>>
    /\ bpc \in {"start", "unused"}
    /\ assets = NotFound
    /\ all_posts = <<>>
    /\ file_k = 0
    /\ written = <<>>
    /\ runs = 0
    /\ ipc = "start"
    /\ sitemap_file \in PriorSitemaps
    /\ site_urls = <<>>
    /\ requests = <<>>
    /\ plog = <<>>
    /\ fs = {}
    /\ base_url = None
    /\ LinkUnused
    /\ ResolveUnused
    /\ AuditUnused
    /\ RecsUnused

NextPush ==
    \/ MainStart
    \/ ExtractAssets
    \/ GetBlogPosts
    \/ UpdateIndexHtml
    \/ UpdateBlogIndexHtml
    \/ GenerateSitemap
    \/ ReadSitemap
    \/ ScanForUrls
    \/ PushToIndexNow

SpecPush == InitPush /\ [][NextPush]_vars

\* the path of a link: what precedes its first '?' or '#'
UrlPath(u) ==
    IF \E i \in 1..Len(u) : u[i] \in {"?", "#"}
    THEN SubSeq(u, 1, (CHOOSE i \in 1..Len(u) : u[i] \in {"?", "#"} /\ \A j \in 1..(i - 1) : u[j] \notin {"?", "#"}) - 1)
    ELSE u

\* C24: for every internal link whose path part ends in .html or .htm and is
\* followed by a query string, a fragment, or both, clean_link returns the path
\* without that suffix, followed by the query/fragment text unchanged.
C24_SuffixStrippedBeforeQueryAndFragment ==
    (/\ Len(outs) >= 1
     /\ ~StartsWithAny(url, SkipPrefixes)
     /\ UrlPath(url) # url
     /\ (EndsWith(UrlPath(url), DotHtml) \/ EndsWith(UrlPath(url), DotHtm)))
    => outs[1] = StripAtEnd(UrlPath(url)) \o DropFirst(url, Len(UrlPath(url)))

(***************************************************************************)
(* generate_recommendations on post lists                                  *)
(***************************************************************************)
RecNames ==
    {PostA, PostB, <<"c", ".", "h", "t", "m", "l">>, <<"d", ".", "h", "t", "m", "l">>, <<"e", ".", "h", "t", "m", "l">>, ExcludedPost}

\* the post list of a blog directory that holds the files ns, the newest first
RecPosts(ns) == [i \in 1..Cardinality(ns) |-> Post(SortedStrings(ns)[i], Cardinality(ns) - i)]

InitRecs ==
    /\ \E ns \in SUBSET RecNames : all_posts = RecPosts(ns) /\ rec_for \in ns
    /\ rec_out = NotReturned
    /\ disk = <<>>
    /\ mtimes = <<>>
    /\ clock = 0
    /\ sitemap = <<>>
    /\ listing = <<>>
    /\ bpc = "unused"
    /\ assets = NotFound
    /\ file_k = 0
    /\ written = <<>>
    /\ runs = 0
    /\ fs = {}
    /\ base_url = None
    /\ LinkUnused
    /\ ResolveUnused
    /\ AuditUnused
    /\ PushUnused

\* "recommendations = generate_recommendations(filename, all_posts)"
GenerateRecommendations ==
    /\ rec_out = NotReturned
    /\ rec_out' \in generate_recommendations(rec_for, all_posts)
    /\ UNCHANGED <<rec_for, fs, base_url, linkVars, resolveVars, auditVars, buildVars, pushVars>>

NextRecs == GenerateRecommendations

SpecRecs == InitRecs /\ [][NextRecs]_vars

\* C28: analyze_equity leaves the inbound-link tally as it was (its keys are
\* only the targets of resolved internal links), so every page listed in
\* top_pages has an inbound count of at least 1.
C28_TallyUnchangedByEquity ==
    /\ [](\A i \in 1..Len(top_pages) : top_pages[i].count >= 1)
    /\ [][pc = "equity" => internal_links_map' = internal_links_map]_vars

(***************************************************************************)
(* Claims about the builder (checked under SpecBuild)                      *)
(***************************************************************************)
\* the files that main's two loops hand to process_file, in order
ToProcess ==
    [i \in 1..Len(SelectSeq(listing, LAMBDA f : EndsWith(f, DotHtml))) |-> Join(BLOG_DIR, SelectSeq(listing, LAMBDA f : EndsWith(f, DotHtml))[i])]
    \o [i \in 1..Len(SelectSeq(root_files_to_process, LAMBDA f : Exists(disk, Join(root_dir, f)))) |-> Join(root_dir, SelectSeq(root_files_to_process, LAMBDA f : Exists(disk, Join(root_dir, f)))[i])]

\* the builder's run is over, by "Build Complete", an early return or an exception
BuilderOver == bpc \in {"complete", "returned", "crashed"}

\* C15: a failure while one page is rebuilt is not fatal: once main has
\* reached its loops, the run ends with "Build Complete" and every page the
\* loops were to process has been written, except the pages that failed.
C15_ItemFailureNotFatal ==
    (BuilderOver /\ \E i \in 1..Len(written) : Basename(written[i]) = SitemapXml)
        => /\ bpc = "complete"
           /\ \A i \in 1..Len(ToProcess) :
                  (disk[ToProcess[i]].readable /\ disk[ToProcess[i]].head # NotFound) => \E j \in 1..Len(written) : written[j] = ToProcess[i]

\* the posts that process_file has rebuilt in this run with inject_recs on
RebuiltPosts == {written[i] : i \in {j \in 1..Len(written) : Dirname(written[j]) = BLOG_DIR /\ Basename(written[j]) # IndexHtml}}

\* a recommendation block of the present or of an earlier design
IsRecommendation(block) == block.kind \in {"rec", "legacy16", "legacy12", "h3div", "plink"}

RecommendationsIn(page) == Cardinality({i \in 1..Len(page.article) : IsRecommendation(page.article[i])})

\* C17: however often the builder has run before, the article of a post it
\* has rebuilt holds exactly one recommendation block when there is a post to
\* recommend (generate_recommendations returns a block), and none otherwise.
C17_OneRecommendationBlock ==
    \A p \in RebuiltPosts :
        disk[p].article # NoBlocks =>
            RecommendationsIn(disk[p]) = IF others(Basename(p), all_posts) = <<>> THEN 0 ELSE 1

C17_Witness ==
    /\ runs >= 1
    /\ bpc \in {"blog", "root", "complete"}
    /\ \E p \in RebuiltPosts : disk[p].article # NoBlocks /\ RecommendationsIn(disk[p]) = 1 /\ disk[p].article[Len(disk[p].article)].links # <<>>

\* the pages that process_file has written in this run: main writes the
\* sitemap last before its loops
Processed == {written[i] : i \in {j \in 1..Len(written) : \E k \in 1..(j - 1) : written[k] = SITEMAP_FILE}}

\* the link tags of a head whose rel has the token
LinksWithRel(head, token) == SelectSeq(head.tags, LAMBDA t : t.name = "link" /\ \E i \in 1..Len(RelTokens(t.rel)) : RelTokens(t.rel)[i] = token)

JsonLdScripts(head) == SelectSeq(head.tags, LAMBDA t : t.name = "script" /\ t.type = "application/ld+json")

\* the canonical URL that the file name of a page gives
C18_Url(p) == (IF Dirname(p) = BLOG_DIR THEN SiteUrl \o BlogPrefix ELSE SiteUrl \o Slash) \o (IF Basename(p) = IndexHtml THEN <<>> ELSE DropLast(Basename(p), Len(DotHtml)))

C18_HeadRegenerated ==
    \A p \in Processed :
        /\ disk[p].head # NotFound
        /\ [i \in 1..Len(LinksWithRel(disk[p].head, "canonical")) |-> LinksWithRel(disk[p].head, "canonical")[i].href] = <<C18_Url(p)>>
        /\ [i \in 1..Len(LinksWithRel(disk[p].head, "alternate")) |-> <<LinksWithRel(disk[p].head, "alternate")[i].hreflang, LinksWithRel(disk[p].head, "alternate")[i].href>>]
               = <<<<"x-default", C18_Url(p)>>, <<"zh", C18_Url(p)>>, <<"zh-CN", C18_Url(p)>>>>
        /\ [i \in 1..Len(JsonLdScripts(disk[p].head)) |-> JsonLdScripts(disk[p].head)[i].content] = <<C18_Url(p)>>

C18_HeadKept ==
    \A p \in DOMAIN disk :
        disk[p].head # NotFound =>
            /\ disk'[p].head # NotFound
            /\ disk[p].head.title # "" => disk'[p].head.title = disk[p].head.title
            /\ disk'[p].head.desc = disk[p].head.desc
            /\ disk'[p].head.keywords = disk[p].head.keywords

\* C18: after rebuild_head, in a first build or a later one, the head of a
\* page keeps the title, description and keywords it had and holds exactly
\* one canonical link, the three alternate links x-default, zh and zh-CN and
\* one ld+json script, all for the URL that the file name gives.
C18_HeadReplacedNotDuplicated == [](C18_HeadRegenerated) /\ [][C18_HeadKept]_vars

C18_Witness ==
    /\ runs >= 1
    /\ \E p \in Processed : disk[p].head.title = "old" /\ Len(disk[p].head.tags) > 5

\* the anchors of the site nav and of the footer of a page
SiteNavLinks(page) == IF OldNav(page.navs) = 0 THEN <<>> ELSE page.navs[OldNav(page.navs)].links

FooterLinks(page) == IF page.footer = NotFound THEN <<>> ELSE page.footer.links

IsBareFragment(href) == href # None /\ (StartsWith(href, <<"#">>) \/ href = <<"/", "#">>)

\* C19: after process_file no anchor of the page's site nav or footer keeps
\* a bare-fragment href, whether the nav and footer replaced earlier ones or
\* were inserted into a page that had none.
C19_NoBareFragmentInNavOrFooter ==
    \A p \in Processed :
        /\ \A i \in 1..Len(SiteNavLinks(disk[p])) : ~IsBareFragment(SiteNavLinks(disk[p])[i].href)
        /\ \A i \in 1..Len(FooterLinks(disk[p])) : ~IsBareFragment(FooterLinks(disk[p])[i].href)

\* the host of an http(s) URL: the text between "//" and the next "/", "?" or "#"
AfterScheme(href) == IF StartsWith(href, HttpsPrefix) THEN DropFirst(href, Len(HttpsPrefix)) ELSE DropFirst(href, Len(HttpPrefix))

Host(href) == SubSeq(AfterScheme(href), 1, Cardinality({i \in 1..Len(AfterScheme(href)) : \A j \in 1..i : AfterScheme(href)[j] \notin {"/", "?", "#"}}))

OnOtherDomain(href) ==
    /\ href # None
    /\ StartsWith(href, HttpPrefix) \/ StartsWith(href, HttpsPrefix)
    /\ Host(href) # SiteDomain
    /\ ~EndsWith(Host(href), <<".">> \o SiteDomain)

HasRel(tag, token) == \E i \in 1..Len(RelTokens(tag.rel)) : RelTokens(tag.rel)[i] = token

\* C20: after process_links every tag of a page whose href is an http(s) URL
\* on another domain than nfhezu.top has nofollow, noopener and noreferrer in
\* its rel.
C20_ForeignLinksTagged ==
    \A p \in Processed :
        \A i \in 1..Len(disk[p].links) :
            OnOtherDomain(disk[p].links[i].href) =>
                HasRel(disk[p].links[i], "nofollow") /\ HasRel(disk[p].links[i], "noopener") /\ HasRel(disk[p].links[i], "noreferrer")

\* a path relative to the page: not empty, not root-relative, not a fragment
\* and without a scheme
IsPageRelative(v) ==
    /\ v \notin {None, <<>>}
    /\ ~StartsWith(v, Slash)
    /\ ~StartsWith(v, <<"#">>)
    /\ ~\E i \in 1..Len(v) : v[i] = ":" /\ \A j \in 1..(i - 1) : v[j] \notin {"/", "?", "#"}

\* C21: after process_links on a blog page no href and no src of the page
\* holds a page-relative path.
C21_NoPageRelativePathOnBlogPage ==
    \A p \in Processed :
        Dirname(p) = BLOG_DIR =>
            \A i \in 1..Len(disk[p].links) : ~IsPageRelative(disk[p].links[i].href) /\ ~IsPageRelative(disk[p].links[i].src)

\* C26: every saved page that has a <main> contains a nav with
\* aria-label="breadcrumb" that is not the site nav, also when the page had no
\* nav before and when the canonical nav has no id 'main-nav'.
C26_BreadcrumbBesideSiteNav ==
    \A p \in Processed :
        disk[p].main => \E i \in 1..Len(disk[p].navs) : i # OldNav(disk[p].navs) /\ disk[p].navs[i].aria = "breadcrumb"

\* the site path that an href designates in a page of the directory dir
SitePath(href, dir) == IF IsPageRelative(href) THEN dir \o href ELSE href

PageDir(p) == IF Dirname(p) = BLOG_DIR THEN <<"/", "b", "l", "o", "g", "/">> ELSE <<"/">>

\* the i-th link of links designates in page p what the i-th canonical link,
\* its bare fragment rewritten, designates in index.html
SameTargets(p, links, canonical) ==
    /\ Len(links) = Len(canonical)
    /\ \A i \in 1..Len(links) : SitePath(links[i].href, PageDir(p)) = SitePath(RewriteFragment(canonical[i]).href, <<"/">>)

\* C27: in every rebuilt page each href of the swapped-in nav and footer
\* designates the same site path as the corresponding href of index.html's nav
\* and footer (after the bare-fragment rewriting), a page-relative one included.
C27_CanonicalLinksNotRetargeted ==
    \A p \in Processed :
        /\ (OldNav(disk[p].navs) # 0 /\ extract_assets(disk[INDEX_FILE]).nav # NotFound)
            => SameTargets(p, SiteNavLinks(disk[p]), extract_assets(disk[INDEX_FILE]).nav.links)
        /\ (disk[p].footer # NotFound /\ extract_assets(disk[INDEX_FILE]).footer # NotFound)
            => SameTargets(p, FooterLinks(disk[p]), extract_assets(disk[INDEX_FILE]).footer.links)

(***************************************************************************)
(* Claims about the index-ping utility (checked under SpecPush)            *)
(***************************************************************************)
\* C22: a run of the index-ping utility sends at most one POST: exactly one,
\* carrying the whole URL list, when the list is not empty, none when it is
\* empty; after any outcome of the request, an HTTP error, a status other than
\* 200 and 202 or another exception included, it has logged the outcome and
\* ended without a second request.
C22_AtMostOnePost ==
    /\ Len(requests) <= 1
    /\ ipc # "done" => requests = <<>>
    /\ ipc = "done" => requests = (IF site_urls = <<>> THEN <<>> ELSE <<Body(site_urls)>>)
    /\ ipc = "done" => plog # <<>>

\* a run that sent several URLs and got an HTTP error has ended with one request
C22_Witness ==
    /\ ipc = "done"
    /\ Len(site_urls) > 1
    /\ requests = <<Body(site_urls)>>
    /\ plog = <<"http error">>

\* a run that found no URL at all has ended without a request
C22_NothingToPush == ipc = "done" /\ site_urls = <<>> /\ requests = <<>>

\* the URLs that the sitemap is to list: home page, blog index, the posts in
\* post-list order, then privacy and disclaimer when the files exist
SitemapUrls ==
    <<SiteUrl \o <<"/">>, SiteUrl \o <<"/", "b", "l", "o", "g", "/">>>>
    \o [i \in 1..Len(all_posts) |-> SiteUrl \o all_posts[i].url]
    \o (IF Exists(disk, Join(root_dir, PrivacyHtml)) THEN <<SiteUrl \o <<"/", "p", "r", "i", "v", "a", "c", "y">>>> ELSE <<>>)
    \o (IF Exists(disk, Join(root_dir, DisclaimerHtml)) THEN <<SiteUrl \o <<"/", "d", "i", "s", "c", "l", "a", "i", "m", "e", "r">>>> ELSE <<>>)

\* C23: the URL list that get_urls_from_sitemap reads from the file written by
\* generate_sitemap is exactly the home page URL, the blog index URL, one URL
\* per post in post-list order, then the privacy and disclaimer URLs when
\* those files exist (so the utility never falls back to the scan).
C23_SitemapRoundTrip ==
    (bpc = "blog" /\ ipc # "start") => (ipc # "scan" /\ (ipc = "push" => site_urls = SitemapUrls))

(***************************************************************************)
(* Claims about generate_recommendations (checked under SpecRecs)          *)
(***************************************************************************)
\* the URLs of the posts other than the current page, in post-list order
OtherPosts == [i \in 1..Len(SelectSeq(all_posts, LAMBDA p : p.filename # rec_for)) |-> SelectSeq(all_posts, LAMBDA p : p.filename # rec_for)[i].url]

\* the URLs of the posts that the returned block recommends
Recommended == IF rec_out = NotFound THEN <<>> ELSE [i \in 1..Len(rec_out.links) |-> rec_out.links[i].href]

\* C25: generate_recommendations returns 4 distinct posts, none the current
\* page, whenever at least 4 posts other than the current page exist; with
\* fewer other posts it returns all of them; it returns None only when there
\* is no other post.
C25_FourOtherPostsOrAllOfThem ==
    rec_out # NotReturned =>
        /\ Len(OtherPosts) >= 4 =>
            /\ Len(Recommended) = 4
            /\ \A i, j \in 1..Len(Recommended) : i # j => Recommended[i] # Recommended[j]
            /\ \A i \in 1..Len(Recommended) : \E j \in 1..Len(OtherPosts) : Recommended[i] = OtherPosts[j]
        /\ Len(OtherPosts) < 4 => Recommended = OtherPosts
        /\ rec_out = NotFound => OtherPosts = <<>>

(***************************************************************************)
(* Claims about both tools (checked under SpecTools)                       *)
(***************************************************************************)
\* C16: when the root index.html is missing, the auditor records the ERROR
\* issue and then scans no file, audits no page and submits no check, and the
\* builder returns from main without writing a page or the sitemap.
C16_MissingIndexAbortsBothTools ==
    /\ index_path \notin fs =>
          /\ pc \in {"start", "aborted"}
          /\ pc = "aborted" => issues = <<IssueOf(Call("ERROR", "Root index.html not found", <<>>, <<>>, 100))>>
          /\ files = <<>>
          /\ file_i = 0
          /\ internal_links_map = <<>>
          /\ external_links = <<>>
          /\ futures = <<>>
    /\ ~Exists(disk, INDEX_FILE) =>
          /\ bpc \in {"start", "returned"}
          /\ written = <<>>
          /\ sitemap = <<>>
          /\ assets = NotFound

C16_Witness == index_path \notin fs /\ ~Exists(disk, INDEX_FILE) /\ pc = "aborted" /\ bpc = "returned"

====
